---- MODULE Spec2Model ----
(***************************************************************************)
(* WatCard Tracker: the Chrome extension's scraper (extension/content.js)  *)
(* and the dashboard's derivations (the page component whose text is in    *)
(* README.md from line 240 on).                                            *)
(*                                                                         *)
(* Strings are TLA+ strings; a character is a string of length 1.          *)
(* Money is an integer number of cents, so sums are exact; a quotient the  *)
(* code computes in floating point (a fraction of the total, the burn      *)
(* rate) is kept as numerator and denominator and compared by cross        *)
(* multiplication.                                                         *)
(***************************************************************************)
EXTENDS Integers, Sequences, FiniteSets, TLC

VARIABLES
    terminal,      \* categorize: the argument
    category,      \* categorize: the value returned, Pending before the call
    dateStr,       \* getTimeBucket: the argument
    clock,         \* the hour the portal printed into dateStr, when it printed one
    bucket,        \* getTimeBucket: the value returned, Pending before the call
    p,             \* getPersona: the argument (the metrics)
    persona,       \* getPersona: the title returned, Pending before the call
    transactions,  \* Dashboard: the transactions state (an array of Transaction)
    calendar,      \* the calendar day [y, m, d] the portal printed into each transaction
    metrics,       \* Dashboard: the values derived by a render
    dom,           \* content.js: the rows of the transaction table (each its cells' text)
    ledger,        \* the account entry the portal printed into each row, when it printed one
    scraped,       \* content.js: what scrapeCurrentPage returned
    balanceInput,  \* Dashboard: the balanceInput state (the text of the balance field)
    entered,       \* the balance, in cents, that the text of the field stands for
    burnRate,      \* Dashboard: dailyBurnRate of the render
    now,           \* the wall clock read by the forecast: [y, m, d, sec]
    forecast,      \* Dashboard: runoutDate, daysLeft, runningOut of the render
    rawTerminal,   \* cleanTerminal: the argument
    cleaned,       \* cleanTerminal: the value returned, Pending before the call
    component,     \* Dashboard: the state raw, transactions, error, lastUpdated, animKey
    localStorage,  \* the browser's storage for the page: each key's item, null when absent
    view,          \* what the page shows: nothing yet, the input view, the dashboard, or
                   \* nothing any more after a render threw
    pasted,        \* what the text in the paste field is: its kind (empty, invalid,
                   \* notArray or array) and the value it is the JSON text of
    accepted,      \* the list and time stamp of the last Generate that went through,
                   \* and whether it, or a Clear after it, is the latest of the two
    site,          \* the portal: its pages of table rows, the page the document shows,
                   \* the page being loaded (0 for none), and the Next button of its
                   \* last page
    pc,            \* content.js: where the script is: start, sleeping, done
    page,          \* content.js: the loop counter page
    allTransactions, \* content.js: allTransactions
    visited,       \* the page the document showed at each scrapeCurrentPage of the loop
    lateWakes,     \* how many times the timer has fired before a load completed
    btn,           \* popup.js: the copy button (its disabled property)
    status,        \* popup.js: the status line (its textContent and className)
    handlers,      \* popup.js: the click handlers that have started and not finished,
                   \* each with the await it is at and the result of its scrape
    clipboard      \* the text on the clipboard, null before any

catVars    == <<terminal, category>>
bucketVars == <<dateStr, clock, bucket>>
personaVars == <<p, persona>>
metricVars  == <<transactions, calendar, metrics>>
scrapeVars  == <<dom, ledger, scraped>>
runwayVars  == <<balanceInput, entered, burnRate, now, forecast>>
cleanVars   == <<rawTerminal, cleaned>>
dashVars    == <<component, localStorage, view, pasted, accepted>>
loopVars    == <<site, pc, page, allTransactions, visited, lateWakes>>
popupVars   == <<btn, status, handlers, clipboard>>
vars == <<catVars, bucketVars, personaVars, metricVars, scrapeVars, runwayVars, cleanVars,
          dashVars, loopVars, popupVars>>

Pending == "(pending)"

-----------------------------------------------------------------------------
(* JavaScript string primitives                                            *)

LowerLetters == "abcdefghijklmnopqrstuvwxyz"
UpperLetters == "ABCDEFGHIJKLMNOPQRSTUVWXYZ"

CharAt(s, i) == SubSeq(s, i, i)

\* The capital of each small letter.
UpperOf ==
    [ c \in { CharAt(LowerLetters, i) : i \in 1..Len(LowerLetters) } |->
        CharAt(UpperLetters, CHOOSE i \in 1..Len(LowerLetters) : CharAt(LowerLetters, i) = c) ]

\* String.prototype.toUpperCase on one ASCII character.
upperChar(c) == IF c \in DOMAIN UpperOf THEN UpperOf[c] ELSE c

RECURSIVE toUpperCase(_)
toUpperCase(s) ==
    IF s = "" THEN "" ELSE upperChar(Head(s)) \o toUpperCase(Tail(s))

\* String.prototype.includes: pat occurs in s as a contiguous substring.
includes(s, pat) ==
    \E i \in 0..(Len(s) - Len(pat)) : SubSeq(s, i + 1, i + Len(pat)) = pat

-----------------------------------------------------------------------------
(* extension/content.js: categorize                                        *)

DiningTokens ==
    { "MUDIES", "BRUBAKERS", "TH-", "TH ", "LIQUID", "TERIYAKI", "SUBWAY",
      "WILLIAMS", "FRESH", "JUGO", "PITA", "STARBUCKS", "QUESADA", "DC" }

\* categorize with rules 1 and 2 in the other order.
categorizeLaundryFirst(term) ==
    LET t == toUpperCase(term) IN
    IF includes(t, "LAUNDRY") \/ includes(t, "WES") THEN "Laundry"
    ELSE IF includes(t, "MARKET") THEN "Groceries"
    ELSE IF includes(t, "PRINT") \/ includes(t, "BROWSERS") THEN "Academic"
    ELSE IF \E tok \in DiningTokens : includes(t, tok) THEN "Dining"
    ELSE "Other"

categorize(term) ==
    LET t == toUpperCase(term) IN
    IF includes(t, "MARKET") THEN "Groceries"
    ELSE IF includes(t, "LAUNDRY") \/ includes(t, "WES") THEN "Laundry"
    ELSE IF includes(t, "PRINT") \/ includes(t, "BROWSERS") THEN "Academic"
    ELSE IF \/ includes(t, "MUDIES")  \/ includes(t, "BRUBAKERS")
            \/ includes(t, "TH-")     \/ includes(t, "TH ")
            \/ includes(t, "LIQUID")  \/ includes(t, "TERIYAKI")
            \/ includes(t, "SUBWAY")  \/ includes(t, "WILLIAMS")
            \/ includes(t, "FRESH")   \/ includes(t, "JUGO")
            \/ includes(t, "PITA")    \/ includes(t, "STARBUCKS")
            \/ includes(t, "QUESADA") \/ includes(t, "DC")
         THEN "Dining"
    ELSE "Other"

Categories == {"Groceries", "Laundry", "Academic", "Dining", "Other"}

\* The terminal texts categorize is applied to: up to MaxWords of these
\* pieces, one after the other.
MaxWords == 2

TerminalWords ==
    { "MARKET", "Market", "LAUNDRY", "laundry", "WES", "PRINT", "Browsers",
      "MUDIES", "BRUBAKERS", "TH-", "th ", "TH", "LIQUID", "TERIYAKI",
      "SUBWAY", "Williams", "FRESH", "JUGO", "PITA", "StarBucks", "QUESADA",
      "DC", "d", "c", "V1 ", "-", "UWP MARKET LAUNDRY", "01481 : POS-FS-" }

RECURSIVE Concat(_)
Concat(ws) == IF ws = <<>> THEN "" ELSE Head(ws) \o Concat(Tail(ws))

TerminalInputs ==
    { Concat(ws) : ws \in UNION { [1..n -> TerminalWords] : n \in 0..MaxWords } }

CatIdle == terminal = "" /\ category = Pending

CatInit == terminal \in TerminalInputs /\ category = Pending

CallCategorize ==
    /\ category = Pending
    /\ category' = categorize(terminal)
    /\ UNCHANGED terminal

-----------------------------------------------------------------------------
(* JavaScript numbers that may be NaN, and parseInt                        *)

NaN == [nan |-> TRUE, v |-> 0]
Num(n) == [nan |-> FALSE, v |-> n]

Digits == "0123456789"
DigitValues ==
    [ c \in { CharAt(Digits, i) : i \in 1..Len(Digits) } |->
        (CHOOSE i \in 1..Len(Digits) : CharAt(Digits, i) = c) - 1 ]
isDigit(c) == c \in DOMAIN DigitValues
digitValue(c) == DigitValues[c]

\* String.prototype.split with a one-character separator.
RECURSIVE split(_, _)
split(s, sep) ==
    IF ~includes(s, sep) THEN <<s>>
    ELSE LET i == CHOOSE k \in 1..Len(s) :
                      /\ CharAt(s, k) = sep
                      /\ \A j \in 1..(k - 1) : CharAt(s, j) # sep
         IN <<SubSeq(s, 1, i - 1)>> \o split(SubSeq(s, i + 1, Len(s)), sep)

RECURSIVE trimStart(_)
trimStart(s) ==
    IF s # "" /\ Head(s) = " " THEN trimStart(Tail(s)) ELSE s

RECURSIVE trimEnd(_)
trimEnd(s) ==
    IF s # "" /\ CharAt(s, Len(s)) = " " THEN trimEnd(SubSeq(s, 1, Len(s) - 1)) ELSE s

\* String.prototype.trim (the only white space of the model is the blank).
trim(s) == trimEnd(trimStart(s))

\* The longest prefix of s made of decimal digits.
RECURSIVE digitPrefix(_)
digitPrefix(s) ==
    IF s # "" /\ isDigit(Head(s)) THEN Head(s) \o digitPrefix(Tail(s)) ELSE ""

\* The value of a string of decimal digits ("" is 0).
RECURSIVE digitsValue(_)
digitsValue(ds) ==
    IF ds = "" THEN 0
    ELSE 10 * digitsValue(SubSeq(ds, 1, Len(ds) - 1)) + digitValue(CharAt(ds, Len(ds)))

\* parseInt(s, 10): leading white space, an optional sign, then the longest
\* run of digits; NaN when there is no digit there.
parseInt(s) ==
    LET t    == trimStart(s)
        neg  == t # "" /\ Head(t) = "-"
        body == IF t # "" /\ Head(t) \in {"-", "+"} THEN Tail(t) ELSE t
        ds   == digitPrefix(body)
    IN IF ds = "" THEN NaN
       ELSE Num(IF neg THEN 0 - digitsValue(ds) ELSE digitsValue(ds))

-----------------------------------------------------------------------------
(* README.md 347-353: getTimeBucket                                        *)

\* getTimeBucket with the first boundary closed at the wrong end.
getTimeBucketOffByOne(ds) ==
    LET parts == split(ds, " ")
        time  == IF Len(parts) >= 2 THEN parts[2] ELSE "0"
        h     == parseInt(split(time, ":")[1])
    IN IF ~h.nan /\ h.v >= 5 /\ h.v <= 11 THEN "Morning"
       ELSE IF ~h.nan /\ h.v > 11 /\ h.v < 16 THEN "Lunch"
       ELSE IF ~h.nan /\ h.v >= 16 /\ h.v < 21 THEN "Dinner"
       ELSE "Late Night"

\* A comparison with NaN is false, so NaN falls through to the last return.
getTimeBucket(ds) ==
    LET parts == split(ds, " ")
        time  == IF Len(parts) >= 2 THEN parts[2] ELSE "0"
        h     == parseInt(split(time, ":")[1])
    IN IF ~h.nan /\ h.v >= 5 /\ h.v < 11 THEN "Morning"
       ELSE IF ~h.nan /\ h.v >= 11 /\ h.v < 16 THEN "Lunch"
       ELSE IF ~h.nan /\ h.v >= 16 /\ h.v < 21 THEN "Dinner"
       ELSE "Late Night"

Buckets == {"Morning", "Lunch", "Dinner", "Late Night"}

\* A natural number in decimal digits.
RECURSIVE decimal(_)
decimal(n) == IF n < 10 THEN CharAt(Digits, n + 1)
              ELSE decimal(n \div 10) \o CharAt(Digits, (n % 10) + 1)

\* How the portal prints a number in two digits.
pad2(n) == CharAt(Digits, (n \div 10) + 1) \o CharAt(Digits, (n % 10) + 1)

\* A number printed without padding (n < 100).
unpadded(n) == IF n < 10 THEN CharAt(Digits, n + 1) ELSE pad2(n)

Hours == 0..23
NoClock == [known |-> FALSE, h |-> 0]
Clock(h) == [known |-> TRUE, h |-> h]

DayTexts == {"2026-02-25", "2025-12-31"}
MinSecTexts == {":00:00", ":21:45", ":59:59"}

\* The date strings getTimeBucket is applied to, each with the hour it
\* stands for: a printed hour (padded or not), or a text with no hour in it
\* (no time part, an empty one, letters, a second blank before the time).
BucketInputs ==
    UNION {
      { [s |-> d \o " " \o pad2(h) \o ms, c |-> Clock(h)] :
            d \in DayTexts, h \in Hours, ms \in MinSecTexts },
      { [s |-> d \o " " \o unpadded(h) \o ms, c |-> Clock(h)] :
            d \in DayTexts, h \in Hours, ms \in MinSecTexts },
      { [s |-> d \o sep \o junk, c |-> NoClock] :
            d \in DayTexts, sep \in {"", " ", "T"},
            junk \in {"", "xx:21:45", ":21:45", "  09:21:45", "a9:00:00"} } }

BucketIdle == dateStr = "" /\ clock = NoClock /\ bucket = Pending

BucketInit ==
    \E i \in BucketInputs : dateStr = i.s /\ clock = i.c /\ bucket = Pending

CallGetTimeBucket ==
    /\ bucket = Pending
    /\ bucket' = getTimeBucket(dateStr)
    /\ UNCHANGED <<dateStr, clock>>

-----------------------------------------------------------------------------
(* README.md 359-447: getPersona                                           *)
(* Amounts are cents. A quotient is [n, d] with d > 0, standing for n / d. *)

Quot(n, d) == [n |-> n, d |-> d]

\* totalSpent > 0 ? part / totalSpent : 0
fractionOf(part, totalSpent) ==
    IF totalSpent > 0 THEN Quot(part, totalSpent) ELSE Quot(0, 1)

\* q > percent / 100
gtPercent(q, percent) == q.n * 100 > percent * q.d

\* q < dollars (q in cents)
ltDollars(q, dollars) == q.n < dollars * 100 * q.d

\* getPersona with the first two checks in the other order.
getPersonaCoffeeFirst(m) ==
    LET lnPct   == fractionOf(m.lateNightSpend, m.totalSpent)
        coffPct == fractionOf(m.coffeeTax,      m.totalSpent)
        dinePct == fractionOf(m.diningTotal,    m.totalSpent)
        grocPct == fractionOf(m.groceriesTotal, m.totalSpent)
    IN IF m.coffeeTax > 8000 \/ gtPercent(coffPct, 15) THEN "The Caffeine Addict"
       ELSE IF gtPercent(lnPct, 25) THEN "The Midnight Snacker"
       ELSE IF m.junkFoodTax > 4000 THEN "The Late-Night Gourmet"
       ELSE IF gtPercent(dinePct, 55) THEN "The Campus Foodie"
       ELSE IF gtPercent(grocPct, 45) THEN "The Smart Shopper"
       ELSE IF m.academicTotal > 2500 THEN "The Scholar"
       ELSE IF ltDollars(m.dailyBurnRate, 8) THEN "The Budget Master"
       ELSE "The Campus Explorer"

\* getPersona dividing without the totalSpent > 0 guard: x / 0 is Infinity
\* for x > 0 and NaN for x = 0.
getPersonaUnguarded(m) ==
    LET over(part, percent) ==
            IF m.totalSpent > 0 THEN part * 100 > percent * m.totalSpent
            ELSE part > 0
    IN IF over(m.lateNightSpend, 25) THEN "The Midnight Snacker"
       ELSE IF m.coffeeTax > 8000 \/ over(m.coffeeTax, 15) THEN "The Caffeine Addict"
       ELSE IF m.junkFoodTax > 4000 THEN "The Late-Night Gourmet"
       ELSE IF over(m.diningTotal, 55) THEN "The Campus Foodie"
       ELSE IF over(m.groceriesTotal, 45) THEN "The Smart Shopper"
       ELSE IF m.academicTotal > 2500 THEN "The Scholar"
       ELSE IF ltDollars(m.dailyBurnRate, 8) THEN "The Budget Master"
       ELSE "The Campus Explorer"

getPersona(m) ==
    LET lnPct   == fractionOf(m.lateNightSpend, m.totalSpent)
        coffPct == fractionOf(m.coffeeTax,      m.totalSpent)
        dinePct == fractionOf(m.diningTotal,    m.totalSpent)
        grocPct == fractionOf(m.groceriesTotal, m.totalSpent)
    IN IF gtPercent(lnPct, 25) THEN "The Midnight Snacker"
       ELSE IF m.coffeeTax > 8000 \/ gtPercent(coffPct, 15) THEN "The Caffeine Addict"
       ELSE IF m.junkFoodTax > 4000 THEN "The Late-Night Gourmet"
       ELSE IF gtPercent(dinePct, 55) THEN "The Campus Foodie"
       ELSE IF gtPercent(grocPct, 45) THEN "The Smart Shopper"
       ELSE IF m.academicTotal > 2500 THEN "The Scholar"
       ELSE IF ltDollars(m.dailyBurnRate, 8) THEN "The Budget Master"
       ELSE "The Campus Explorer"

PersonaTitles ==
    { "The Midnight Snacker", "The Caffeine Addict", "The Late-Night Gourmet",
      "The Campus Foodie", "The Smart Shopper", "The Scholar",
      "The Budget Master", "The Campus Explorer" }

\* The metrics getPersona is applied to: each one just below, at and just
\* above the threshold it is compared with, for a total of $0 and of $100.
PersonaInputs ==
    [ totalSpent     : {0, 10000},
      lateNightSpend : {0, 2500, 2501},
      coffeeTax      : {0, 1500, 1501, 8001},
      junkFoodTax    : {0, 4000, 4001},
      diningTotal    : {0, 5500, 5501},
      groceriesTotal : {0, 4500, 4501},
      academicTotal  : {0, 2500, 2501},
      dailyBurnRate  : {Quot(0, 1), Quot(2399, 3), Quot(800, 1)} ]

NoMetrics ==
    [ totalSpent |-> 0, lateNightSpend |-> 0, coffeeTax |-> 0, junkFoodTax |-> 0,
      diningTotal |-> 0, groceriesTotal |-> 0, academicTotal |-> 0,
      dailyBurnRate |-> Quot(0, 1) ]

PersonaIdle == p = NoMetrics /\ persona = Pending

PersonaInit == p \in PersonaInputs /\ persona = Pending

CallGetPersona ==
    /\ persona = Pending
    /\ persona' = getPersona(p)
    /\ UNCHANGED p

-----------------------------------------------------------------------------
(* JavaScript: Array.prototype.sort on strings, new Date("YYYY-MM-DD")     *)

\* The characters of the model in the order of their UTF-16 code units.
CodeOrder == " $+-.0123456789:ABCDEFGHIJKLMNOPQRSTUVWXYZabcdefghijklmnopqrstuvwxyz"
CodeUnits ==
    [ c \in { CharAt(CodeOrder, i) : i \in 1..Len(CodeOrder) } |->
        CHOOSE i \in 1..Len(CodeOrder) : CharAt(CodeOrder, i) = c ]
codeUnit(c) == CodeUnits[c]

\* a < b as the default sort compares strings: by code units, a proper
\* prefix first.
RECURSIVE strLess(_, _)
strLess(a, b) ==
    IF b = "" THEN FALSE
    ELSE IF a = "" THEN TRUE
    ELSE IF Head(a) # Head(b) THEN codeUnit(Head(a)) < codeUnit(Head(b))
    ELSE strLess(Tail(a), Tail(b))

RECURSIVE insertSorted(_, _)
insertSorted(x, sorted) ==
    IF sorted = <<>> THEN <<x>>
    ELSE IF strLess(x, Head(sorted)) THEN <<x>> \o sorted
    ELSE <<Head(sorted)>> \o insertSorted(x, Tail(sorted))

\* Array.prototype.sort() with no comparator, on strings.
RECURSIVE sortStrings(_)
sortStrings(xs) ==
    IF xs = <<>> THEN <<>>
    ELSE insertSorted(xs[Len(xs)], sortStrings(SubSeq(xs, 1, Len(xs) - 1)))

allDigits(s) == \A i \in 1..Len(s) : isDigit(CharAt(s, i))

isLeapYear(y) == (y % 4 = 0 /\ y % 100 # 0) \/ y % 400 = 0

daysInMonth(y, m) ==
    IF m = 2 THEN (IF isLeapYear(y) THEN 29 ELSE 28)
    ELSE IF m \in {4, 6, 9, 11} THEN 30 ELSE 31

\* Days from 1970-01-01 to the civil date y-m-d (proleptic Gregorian).
daysFromCivil(y, m, d) ==
    LET yy  == IF m <= 2 THEN y - 1 ELSE y
        era == yy \div 400
        yoe == yy - era * 400
        mp  == IF m > 2 THEN m - 3 ELSE m + 9
        doy == (153 * mp + 2) \div 5 + d - 1
        doe == yoe * 365 + yoe \div 4 - yoe \div 100 + doy
    IN era * 146097 + doe - 719468

\* 86_400_000 ms. The model counts time in seconds, not milliseconds (every
\* time of the model is a whole second, and 32-bit integers hold seconds
\* since 1970 but not milliseconds).
SecPerDay == 86400

\* new Date(s).getTime() for a date-only string: "YYYY-MM-DD" is midnight
\* UTC of that day; anything else of the model's texts is an Invalid Date,
\* whose time is NaN.
dateGetTime(s) ==
    LET parts == split(s, "-") IN
    IF /\ Len(parts) = 3
       /\ Len(parts[1]) = 4 /\ Len(parts[2]) = 2 /\ Len(parts[3]) = 2
       /\ \A i \in 1..3 : allDigits(parts[i])
       /\ digitsValue(parts[2]) \in 1..12
       /\ digitsValue(parts[3]) \in 1..daysInMonth(digitsValue(parts[1]), digitsValue(parts[2]))
    THEN Num(SecPerDay * daysFromCivil(digitsValue(parts[1]), digitsValue(parts[2]),
                                      digitsValue(parts[3])))
    ELSE NaN

\* Math.round(n / d) for d > 0: the nearest integer, a half rounded up.
roundDiv(n, d) == (2 * n + d) \div (2 * d)

-----------------------------------------------------------------------------
(* README.md 325-335: cleanTerminal                                        *)

\* Array.prototype.join
RECURSIVE join(_, _)
join(parts, sep) ==
    IF parts = <<>> THEN ""
    ELSE IF Len(parts) = 1 THEN parts[1]
    ELSE parts[1] \o sep \o join(Tail(parts), sep)

\* s.replace(/^POS-FS-/i, ""): the first seven characters removed when they
\* are POS-FS- in any letter case.
stripPosFs(s) ==
    IF Len(s) >= 7 /\ toUpperCase(SubSeq(s, 1, 7)) = "POS-FS-"
    THEN SubSeq(s, 8, Len(s)) ELSE s

\* s.replace(/^POS-FS-/, ""): the same without the i flag.
stripPosFsCaseSensitive(s) ==
    IF Len(s) >= 7 /\ SubSeq(s, 1, 7) = "POS-FS-"
    THEN SubSeq(s, 8, Len(s)) ELSE s

\* s.replace(/-\d+$/, ""): the leftmost place where a hyphen and one or more
\* digits reach the end of the string, removed.
stripDashDigits(s) ==
    LET matches == { i \in 1..Len(s) :
                        /\ CharAt(s, i) = "-"
                        /\ i < Len(s)
                        /\ allDigits(SubSeq(s, i + 1, Len(s))) }
    IN IF matches = {} THEN s
       ELSE SubSeq(s, 1, (CHOOSE i \in matches : \A j \in matches : i <= j) - 1)

\* s.replace(/-$/, "")
stripDash(s) ==
    IF s # "" /\ CharAt(s, Len(s)) = "-" THEN SubSeq(s, 1, Len(s) - 1) ELSE s

\* cleanTerminal with a case-sensitive prefix test.
cleanTerminalCaseSensitive(raw) ==
    LET after == IF includes(raw, ":")
                 THEN trim(join(Tail(split(raw, ":")), ":"))
                 ELSE trim(raw)
    IN trim(stripDash(stripDashDigits(stripPosFsCaseSensitive(after))))

\* slice(1) of a non-empty array is its tail.
cleanTerminal(raw) ==
    LET after == IF includes(raw, ":")
                 THEN trim(join(Tail(split(raw, ":")), ":"))
                 ELSE trim(raw)
    IN trim(stripDash(stripDashDigits(stripPosFs(after))))

\* The terminal texts cleanTerminal is applied to: up to MaxPieces of these
\* pieces, one after the other.
MaxPieces == 3

TerminalPieces ==
    { "01481 : POS-FS-", "POS-FS-", "pos-Fs-", "UWP MARKET", "TH", "SLC-",
      "-37", "2", "-", ":", " ", "a:b" }

TerminalTexts ==
    { Concat(ws) : ws \in UNION { [1..n -> TerminalPieces] : n \in 0..MaxPieces } }

CleanIdle == rawTerminal = "" /\ cleaned = Pending

CleanInit == rawTerminal \in TerminalTexts /\ cleaned = Pending

CallCleanTerminal ==
    /\ cleaned = Pending
    /\ cleaned' = cleanTerminal(rawTerminal)
    /\ UNCHANGED rawTerminal

-----------------------------------------------------------------------------
(* README.md 512-535: purchases, elapsedDays, totalSpent, dailyBurnRate    *)

\* purchases with the filter left out.
purchasesUnfiltered(txns) == txns

\* (transactions ?? []).filter(t => !t.isDeposit)
purchases(txns) ==
    LET notDeposit(t) == ~t.isDeposit IN SelectSeq(txns, notDeposit)

\* t.date.split(" ")[0]
datePortion(t) == split(t.date, " ")[1]

\* elapsedDays as the number of distinct days with a purchase.
elapsedDaysActive(ps) ==
    IF ps = <<>> THEN Num(1)
    ELSE Num(Cardinality({ datePortion(ps[i]) : i \in 1..Len(ps) }))

\* elapsedDays without Math.max(1, ...).
elapsedDaysNoFloor(ps) ==
    IF ps = <<>> THEN Num(1)
    ELSE LET ymd   == sortStrings([i \in 1..Len(ps) |-> datePortion(ps[i])])
             last  == dateGetTime(ymd[Len(ymd)])
             first == dateGetTime(ymd[1])
         IN IF last.nan \/ first.nan THEN NaN
            ELSE Num(roundDiv(last.v - first.v, SecPerDay))

\* Math.max(1, NaN) is NaN.
elapsedDays(ps) ==
    IF ps = <<>> THEN Num(1)
    ELSE LET ymd   == sortStrings([i \in 1..Len(ps) |-> datePortion(ps[i])])
             last  == dateGetTime(ymd[Len(ymd)])
             first == dateGetTime(ymd[1])
         IN IF last.nan \/ first.nan THEN NaN
            ELSE LET days == roundDiv(last.v - first.v, SecPerDay)
                 IN Num(IF days > 1 THEN days ELSE 1)

\* purchases.reduce((s, t) => s + t.amount, 0)
RECURSIVE totalSpent(_)
totalSpent(ps) ==
    IF ps = <<>> THEN 0
    ELSE totalSpent(SubSeq(ps, 1, Len(ps) - 1)) + ps[Len(ps)].amount

\* elapsedDays > 0 ? totalSpent / elapsedDays : 0   (NaN > 0 is false)
dailyBurnRate(total, days) ==
    IF ~days.nan /\ days.v > 0 THEN Quot(total, days.v) ELSE Quot(0, 1)

-----------------------------------------------------------------------------
(* README.md 537-654: the other derivations of a render                    *)

\* The filter callback of coffeeTax.
isCoffee(t) ==
    LET u == toUpperCase(t.terminal) IN
    \/ includes(u, "STARBUCKS") \/ includes(u, "TH-")
    \/ includes(u, "TH ")       \/ includes(u, "WILLIAMS")

\* coffeeTax as the total of the Dining purchases.
coffeeTaxByCategory(ps) ==
    LET dining(t) == t.category = "Dining" IN totalSpent(SelectSeq(ps, dining))

\* purchases.filter(...).reduce((s, t) => s + t.amount, 0)
coffeeTax(ps) == totalSpent(SelectSeq(ps, isCoffee))

junkFoodTax(ps) ==
    LET lateDining(t) == getTimeBucket(t.date) = "Late Night" /\ t.category = "Dining"
    IN totalSpent(SelectSeq(ps, lateDining))

lateNightSpend(ps) ==
    LET late(t) == getTimeBucket(t.date) = "Late Night" IN totalSpent(SelectSeq(ps, late))

\* A Record<string, number> is the sequence of its [name, total] entries
\* in the order the names were first written.
\* map[k] = (map[k] ?? 0) + amount
mapAdd(map, k, amount) ==
    IF \E i \in DOMAIN map : map[i].name = k
    THEN [i \in DOMAIN map |->
             IF map[i].name = k THEN [name |-> k, total |-> map[i].total + amount]
             ELSE map[i]]
    ELSE Append(map, [name |-> k, total |-> amount])

\* The forEach loops that fill a map: keys[i] is the name the i-th purchase
\* is filed under, amounts[i] its amount.
RECURSIVE accumulate(_, _)
accumulate(keys, amounts) ==
    IF keys = <<>> THEN <<>>
    ELSE mapAdd(accumulate(SubSeq(keys, 1, Len(keys) - 1),
                           SubSeq(amounts, 1, Len(amounts) - 1)),
                keys[Len(keys)], amounts[Len(amounts)])

\* A property name that is an array index ("0", "7", "42"): no leading zero.
isArrayIndex(k) == k # "" /\ allDigits(k) /\ (k = "0" \/ Head(k) # "0")

RECURSIVE insertByIndex(_, _)
insertByIndex(e, sorted) ==
    IF sorted = <<>> THEN <<e>>
    ELSE IF digitsValue(e.name) < digitsValue(Head(sorted).name) THEN <<e>> \o sorted
    ELSE <<Head(sorted)>> \o insertByIndex(e, Tail(sorted))

RECURSIVE sortByIndex(_)
sortByIndex(es) ==
    IF es = <<>> THEN <<>>
    ELSE insertByIndex(es[Len(es)], sortByIndex(SubSeq(es, 1, Len(es) - 1)))

\* Object.entries(map): the array-index names first, in ascending numeric
\* order, then the other names in the order they were first written.
entries(map) ==
    LET indexed(e) == isArrayIndex(e.name)
        named(e)   == ~isArrayIndex(e.name)
    IN sortByIndex(SelectSeq(map, indexed)) \o SelectSeq(map, named)

\* Array.prototype.sort((a, b) => b.total - a.total): descending by total;
\* the sort is stable, so entries of equal total keep their order.
RECURSIVE insertByTotal(_, _)
insertByTotal(e, sorted) ==
    IF sorted = <<>> THEN <<e>>
    ELSE IF e.total > Head(sorted).total THEN <<e>> \o sorted
    ELSE <<Head(sorted)>> \o insertByTotal(e, Tail(sorted))

RECURSIVE sortByTotal(_)
sortByTotal(es) ==
    IF es = <<>> THEN <<>>
    ELSE insertByTotal(es[Len(es)], sortByTotal(SubSeq(es, 1, Len(es) - 1)))

\* The same sort, ascending.
RECURSIVE insertByTotalAscending(_, _)
insertByTotalAscending(e, sorted) ==
    IF sorted = <<>> THEN <<e>>
    ELSE IF e.total < Head(sorted).total THEN <<e>> \o sorted
    ELSE <<Head(sorted)>> \o insertByTotalAscending(e, Tail(sorted))

RECURSIVE sortByTotalAscending(_)
sortByTotalAscending(es) ==
    IF es = <<>> THEN <<>>
    ELSE insertByTotalAscending(es[Len(es)],
                                sortByTotalAscending(SubSeq(es, 1, Len(es) - 1)))

\* categoryTotals sorted the other way.
categoryTotalsAscending(ps) ==
    sortByTotalAscending(entries(accumulate([i \in 1..Len(ps) |-> ps[i].category],
                                            [i \in 1..Len(ps) |-> ps[i].amount])))

categoryTotals(ps) ==
    sortByTotal(entries(accumulate([i \in 1..Len(ps) |-> ps[i].category],
                                   [i \in 1..Len(ps) |-> ps[i].amount])))

\* categoryTotals.find(c => c.name === name)?.total ?? 0
totalOf(cts, name) ==
    IF \E i \in DOMAIN cts : cts[i].name = name
    THEN cts[CHOOSE i \in DOMAIN cts :
                 cts[i].name = name /\ \A j \in 1..(i - 1) : cts[j].name # name].total
    ELSE 0

\* The persona of a render.
personaOf(ps, cts, total, coffee, junk, burn) ==
    getPersona([ totalSpent     |-> total,
                 coffeeTax      |-> coffee,
                 junkFoodTax    |-> junk,
                 lateNightSpend |-> lateNightSpend(ps),
                 dailyBurnRate  |-> burn,
                 diningTotal    |-> totalOf(cts, "Dining"),
                 groceriesTotal |-> totalOf(cts, "Groceries"),
                 academicTotal  |-> totalOf(cts, "Academic") ])

\* new Date(yr, mo - 1, dy).getDay() % 6 === 0 for the date portion ymd,
\* whose fields are read by Number. 1970-01-01 was a Thursday (day 4). A
\* field that is not a number makes the Date invalid and the test false.
isWeekend(ymd) ==
    LET parts == split(ymd, "-") IN
    IF Len(parts) >= 3 /\ \A i \in 1..3 : parts[i] # "" /\ allDigits(parts[i])
    THEN ((daysFromCivil(digitsValue(parts[1]), digitsValue(parts[2]),
                         digitsValue(parts[3])) + 4) % 7) % 6 = 0
    ELSE FALSE

\* total > 0 days ? total / count : 0
average(total, count) == IF count > 0 THEN Quot(total, count) ELSE Quot(0, 1)

\* Object.values(map).reduce((s, v) => s + v, 0)
RECURSIVE sumValues(_)
sumValues(map) ==
    IF map = <<>> THEN 0
    ELSE sumValues(SubSeq(map, 1, Len(map) - 1)) + map[Len(map)].total

\* One group of weekdayWeekend: the total of its map's values and that
\* total over the number of the map's keys.
groupOf(name, ps) ==
    LET map   == accumulate([i \in 1..Len(ps) |-> datePortion(ps[i])],
                            [i \in 1..Len(ps) |-> ps[i].amount])
        total == sumValues(map)
    IN [name |-> name, avg |-> average(total, Len(map)), total |-> total]

\* weekdayWeekend averaging over the purchases instead of the days.
weekdayWeekendPerPurchase(ps) ==
    LET we(t) == isWeekend(datePortion(t))
        wd(t) == ~isWeekend(datePortion(t))
        per(name, qs) == [name |-> name, avg |-> average(totalSpent(qs), Len(qs)),
                          total |-> totalSpent(qs)]
    IN << per("Weekday", SelectSeq(ps, wd)), per("Weekend", SelectSeq(ps, we)) >>

weekdayWeekend(ps) ==
    LET we(t) == isWeekend(datePortion(t))
        wd(t) == ~isWeekend(datePortion(t))
    IN << groupOf("Weekday", SelectSeq(ps, wd)), groupOf("Weekend", SelectSeq(ps, we)) >>

\* README.md 338-345: formatDay. A month or a day that is not a number
\* prints as undefined or NaN.
MonthNames == <<"Jan", "Feb", "Mar", "Apr", "May", "Jun",
                "Jul", "Aug", "Sep", "Oct", "Nov", "Dec">>

numberString(n) == IF n.nan THEN "NaN" ELSE IF n.v < 0 THEN "-" \o decimal(0 - n.v)
                   ELSE decimal(n.v)

formatDay(ds) ==
    LET ymd   == split(ds, " ")[1]
        parts == split(ymd, "-")
        mm    == IF Len(parts) >= 2 THEN parseInt(parts[2]) ELSE NaN
        dd    == IF Len(parts) >= 3 THEN parseInt(parts[3]) ELSE NaN
    IN IF ymd = "" THEN ""
       ELSE (IF ~mm.nan /\ mm.v \in 1..12 THEN MonthNames[mm.v] ELSE "undefined")
            \o " " \o numberString(dd)

\* .sort(([a], [b]) => a.localeCompare(b)): ascending by key; localeCompare
\* orders the days as the code units do.
RECURSIVE insertByDay(_, _)
insertByDay(e, sorted) ==
    IF sorted = <<>> THEN <<e>>
    ELSE IF strLess(e.name, Head(sorted).name) THEN <<e>> \o sorted
    ELSE <<Head(sorted)>> \o insertByDay(e, Tail(sorted))

RECURSIVE sortByDay(_)
sortByDay(es) ==
    IF es = <<>> THEN <<>> ELSE insertByDay(Head(es), sortByDay(Tail(es)))

\* README.md 596-606: dailySpend, with the totals of the weekdays only.
dailySpendWeekdays(ps) ==
    LET wd(t)  == ~isWeekend(datePortion(t))
        qs     == SelectSeq(ps, wd)
        map    == accumulate([i \in 1..Len(qs) |-> datePortion(qs[i])],
                             [i \in 1..Len(qs) |-> qs[i].amount])
        sorted == sortByDay(entries(map))
    IN [i \in 1..Len(sorted) |-> [day |-> formatDay(sorted[i].name), total |-> sorted[i].total]]

dailySpend(ps) ==
    LET map    == accumulate([i \in 1..Len(ps) |-> datePortion(ps[i])],
                             [i \in 1..Len(ps) |-> ps[i].amount])
        sorted == sortByDay(entries(map))
    IN [i \in 1..Len(sorted) |-> [day |-> formatDay(sorted[i].name), total |-> sorted[i].total]]

\* README.md 629-635: timeOfDay.
TimeBuckets == <<"Morning", "Lunch", "Dinner", "Late Night">>

timeOfDay(ps) ==
    [k \in 1..Len(TimeBuckets) |->
        LET inBucket(t) == getTimeBucket(t.date) = TimeBuckets[k]
        IN [name |-> TimeBuckets[k], total |-> totalSpent(SelectSeq(ps, inBucket))]]

\* slice(0, n)
slice0(xs, n) == SubSeq(xs, 1, IF Len(xs) < n THEN Len(xs) ELSE n)

\* topLocations cutting the list before it is sorted.
topLocationsSliceFirst(ps) ==
    sortByTotal(slice0(entries(accumulate([i \in 1..Len(ps) |-> cleanTerminal(ps[i].terminal)],
                                          [i \in 1..Len(ps) |-> ps[i].amount])), 5))

topLocations(ps) ==
    slice0(sortByTotal(entries(accumulate([i \in 1..Len(ps) |-> cleanTerminal(ps[i].terminal)],
                                          [i \in 1..Len(ps) |-> ps[i].amount]))), 5)

\* [...].sort((a, b) => b.date.localeCompare(a.date)): descending by date,
\* stable. The dates of the model have the portal's fixed format, on which
\* localeCompare orders as the code units do.
RECURSIVE insertByDate(_, _)
insertByDate(t, sorted) ==
    IF sorted = <<>> THEN <<t>>
    ELSE IF strLess(Head(sorted).date, t.date) THEN <<t>> \o sorted
    ELSE <<Head(sorted)>> \o insertByDate(t, Tail(sorted))

RECURSIVE sortByDate(_)
sortByDate(ts) ==
    IF ts = <<>> THEN <<>>
    ELSE insertByDate(ts[Len(ts)], sortByDate(SubSeq(ts, 1, Len(ts) - 1)))

\* sortedTxns built from the purchases alone.
sortedTxnsPurchasesOnly(txns) == sortByDate(purchases(txns))

sortedTxns(txns) == sortByDate(txns)

\* One render of the component: the derivations in the order of the source.
derive(txns) ==
    LET ps    == purchases(txns)
        days  == elapsedDays(ps)
        total == totalSpent(ps)
        burn   == dailyBurnRate(total, days)
        coffee == coffeeTax(ps)
        junk   == junkFoodTax(ps)
        cts    == categoryTotals(ps)
    IN [ rendered       |-> TRUE,
         purchases      |-> ps,
         elapsedDays    |-> days,
         totalSpent     |-> total,
         dailyBurnRate  |-> burn,
         coffeeTax      |-> coffee,
         junkFoodTax    |-> junk,
         categoryTotals |-> cts,
         persona        |-> personaOf(ps, cts, total, coffee, junk, burn),
         dailySpend     |-> dailySpend(ps),
         weekdayWeekend |-> weekdayWeekend(ps),
         timeOfDay      |-> timeOfDay(ps),
         topLocations   |-> topLocations(ps),
         sortedTxns     |-> sortedTxns(txns) ]

-----------------------------------------------------------------------------
(* The transaction lists the derivations are applied to                    *)

pad4(n) == pad2(n \div 100) \o pad2(n % 100)

Day(y, m, d) == [y |-> y, m |-> m, d |-> d]

\* The portal's date text: "YYYY-MM-DD HH:MM:SS".
portalDate(day, time) ==
    pad4(day.y) \o "-" \o pad2(day.m) \o "-" \o pad2(day.d) \o " " \o time

\* A row as the scraper emits it, with the day it was printed from.
Row(day, time, term, cents, deposit) ==
    [ day |-> day,
      txn |-> [ date |-> portalDate(day, time), terminal |-> term, amount |-> cents,
                isDeposit |-> deposit, category |-> categorize(term) ] ]

PurchaseRows ==
    { Row(Day(2025, 12, 31), "23:58:10", "01481 : POS-FS-UWP MARKET-37", 1299, FALSE),
      Row(Day(2026, 2, 1),   "08:05:00", "POS-FS-TH-SLC", 450, FALSE),
      Row(Day(2026, 2, 1),   "22:21:45", "POS-FS-SUBWAY", 1130, FALSE),
      Row(Day(2026, 2, 3),   "12:30:00", "V1 LAUNDRY", 325, FALSE),
      Row(Day(2026, 2, 5),   "17:45:30", "POS-FS-BROWSERS-2", 2600, FALSE),
      Row(Day(2026, 2, 7),   "10:15:00", "POS-FS-Williams Market-4", 880, FALSE),
      Row(Day(2026, 2, 7),   "21:05:00", "00312 : POS-FS-TH EXPRESS", 325, FALSE),
      Row(Day(2026, 2, 28),  "13:00:00", "VENDING", 0, FALSE),
      Row(Day(2026, 3, 1),   "03:10:00", "POS-FS-STARBUCKS", 675, FALSE) }

DepositRows ==
    { Row(Day(2025, 12, 1), "10:00:00", "WEB DEPOSIT", 5000, TRUE),
      Row(Day(2026, 2, 3),  "09:00:00", "WEB DEPOSIT", 2000, TRUE),
      Row(Day(2026, 3, 15), "16:00:00", "WEB DEPOSIT", 10000, TRUE) }

TxnRows == PurchaseRows \cup DepositRows

MaxTxns == 3

RowLists == UNION { [1..n -> TxnRows] : n \in 0..MaxTxns }

NotRendered == [rendered |-> FALSE]

MetricsIdle == transactions = <<>> /\ calendar = <<>> /\ metrics = NotRendered

MetricsInit ==
    \E rows \in RowLists :
        /\ transactions = [i \in 1..Len(rows) |-> rows[i].txn]
        /\ calendar = [i \in 1..Len(rows) |-> rows[i].day]
        /\ metrics = NotRendered

\* The purchases of a card used at more places than topLocations shows:
\* two terminals of one place, places with equal totals, and a place whose
\* cleaned name is a number.
LocationRows ==
    { Row(Day(2026, 2, 2),  "12:01:00", "01481 : POS-FS-UWP MARKET-37", 1299, FALSE),
      Row(Day(2026, 2, 3),  "18:40:00", "POS-FS-UWP MARKET-2", 300, FALSE),
      Row(Day(2026, 2, 4),  "08:05:00", "POS-FS-TH-SLC", 450, FALSE),
      Row(Day(2026, 2, 5),  "09:30:00", "POS-FS-STARBUCKS", 450, FALSE),
      Row(Day(2026, 2, 6),  "23:10:00", "POS-FS-7-11", 325, FALSE),
      Row(Day(2026, 2, 9),  "17:45:30", "POS-FS-BROWSERS-2", 2600, FALSE),
      Row(Day(2026, 2, 10), "12:30:00", "V1 LAUNDRY", 300, FALSE) }

MaxVisits == 6

\* Each row at most once, in any order.
VisitLists ==
    UNION { { f \in [1..n -> LocationRows] : \A i, j \in 1..n : f[i] = f[j] => i = j } :
            n \in 0..MaxVisits }

LocationsInit ==
    \E rows \in VisitLists :
        /\ transactions = [i \in 1..Len(rows) |-> rows[i].txn]
        /\ calendar = [i \in 1..Len(rows) |-> rows[i].day]
        /\ metrics = NotRendered

Render ==
    /\ ~metrics.rendered
    /\ metrics' = derive(transactions)
    /\ UNCHANGED <<transactions, calendar>>

-----------------------------------------------------------------------------
(* JavaScript: parseFloat, String.prototype.replace, Math.abs              *)

\* The first two digits after the decimal point, as cents (the amounts of
\* the model have at most two).
centsOf(fp) == digitsValue(SubSeq(fp \o "00", 1, 2))

\* parseFloat(s), in cents: leading white space, an optional sign, digits,
\* an optional point and digits; what follows is ignored; NaN when no digit
\* is found there.
parseFloat(s) ==
    LET t    == trimStart(s)
        neg  == t # "" /\ Head(t) = "-"
        body == IF t # "" /\ Head(t) \in {"-", "+"} THEN Tail(t) ELSE t
        ip   == digitPrefix(body)
        rest == SubSeq(body, Len(ip) + 1, Len(body))
        fp   == IF rest # "" /\ Head(rest) = "." THEN digitPrefix(Tail(rest)) ELSE ""
        mag  == 100 * digitsValue(ip) + centsOf(fp)
    IN IF ip = "" /\ fp = "" THEN NaN
       ELSE Num(IF neg THEN 0 - mag ELSE mag)

\* s.replace(pat, ""): the first occurrence of pat removed.
removeFirst(s, pat) ==
    IF ~includes(s, pat) THEN s
    ELSE LET i == CHOOSE k \in 0..(Len(s) - Len(pat)) :
                      /\ SubSeq(s, k + 1, k + Len(pat)) = pat
                      /\ \A j \in 0..(k - 1) : SubSeq(s, j + 1, j + Len(pat)) # pat
         IN SubSeq(s, 1, i) \o SubSeq(s, i + Len(pat) + 1, Len(s))

\* Math.abs
abs(x) == IF x.nan THEN NaN ELSE Num(IF x.v < 0 THEN 0 - x.v ELSE x.v)

-----------------------------------------------------------------------------
(* extension/content.js 19-40: scrapeCurrentPage                           *)

\* The callback of rows.forEach without Math.abs.
scrapeRowSigned(cells) ==
    IF Len(cells) < 7 THEN <<>>
    ELSE LET date      == trim(cells[1])
             term      == trim(cells[3])
             rawAmount == trim(cells[7])
             isDeposit == ~includes(rawAmount, "-")
             amount    == parseFloat(removeFirst(rawAmount, "$"))
         IN IF amount.nan THEN <<>>
            ELSE << [ date |-> date, terminal |-> term, amount |-> amount.v,
                      isDeposit |-> isDeposit, category |-> categorize(term) ] >>

\* The callback of rows.forEach with NaN turned into 0 instead of skipped.
scrapeRowNaNAsZero(cells) ==
    IF Len(cells) < 7 THEN <<>>
    ELSE LET date      == trim(cells[1])
             term      == trim(cells[3])
             rawAmount == trim(cells[7])
             isDeposit == ~includes(rawAmount, "-")
             amount    == abs(parseFloat(removeFirst(rawAmount, "$")))
         IN << [ date |-> date, terminal |-> term,
                 amount |-> IF amount.nan THEN 0 ELSE amount.v,
                 isDeposit |-> isDeposit, category |-> categorize(term) ] >>

\* The callback of rows.forEach: the transactions one row adds (none or one).
\* cells[0], cells[2], cells[6] of the source are cells[1], cells[3], cells[7].
scrapeRow(cells) ==
    IF Len(cells) < 7 THEN <<>>
    ELSE LET date      == trim(cells[1])
             term      == trim(cells[3])
             rawAmount == trim(cells[7])
             isDeposit == ~includes(rawAmount, "-")
             amount    == abs(parseFloat(removeFirst(rawAmount, "$")))
         IN IF amount.nan THEN <<>>
            ELSE << [ date |-> date, terminal |-> term, amount |-> amount.v,
                      isDeposit |-> isDeposit, category |-> categorize(term) ] >>

RECURSIVE scrapeCurrentPage(_)
scrapeCurrentPage(rows) ==
    IF rows = <<>> THEN <<>>
    ELSE scrapeCurrentPage(SubSeq(rows, 1, Len(rows) - 1)) \o scrapeRow(rows[Len(rows)])

-----------------------------------------------------------------------------
(* The tables scrapeCurrentPage is applied to                              *)

\* How the portal prints an amount: "$50.00" for a deposit of 5000 cents,
\* "$-9.99" for a purchase of 999 cents.
portalAmount(cents, debit) ==
    "$" \o (IF debit THEN "-" ELSE "") \o decimal(cents \div 100) \o "." \o pad2(cents % 100)

Entry(cents, debit) == [printed |-> TRUE, cents |-> cents, debit |-> debit]
NoEntry == [printed |-> FALSE, cents |-> 0, debit |-> FALSE]

\* A table row of seven cells and the entry printed into its amount cell.
TableRow(dateText, term, amountText, entry) ==
    [ cells |-> <<dateText, "", term, "", "", "", amountText>>, entry |-> entry ]

TableRows ==
    { TableRow("2026-02-25 22:21:45", "01481 : POS-FS-UWP MARKET-37",
               portalAmount(999, TRUE), Entry(999, TRUE)),
      TableRow(" 2026-02-26 09:00:10 ", " WEB DEPOSIT ",
               " " \o portalAmount(5000, FALSE) \o " ", Entry(5000, FALSE)),
      TableRow("2026-02-26 12:01:00", "POS-FS-TH-SLC",
               portalAmount(5, TRUE), Entry(5, TRUE)),
      TableRow("2026-02-27 18:30:00", "V1 LAUNDRY",
               portalAmount(123450, TRUE), Entry(123450, TRUE)),
      TableRow("2026-02-27 18:31:00", "ADJUSTMENT",
               portalAmount(0, FALSE), Entry(0, FALSE)),
      TableRow("2026-02-27 19:00:00", "POS-FS-SUBWAY", "-$4.50", Entry(450, TRUE)),
      TableRow("2026-02-28 10:00:00", "POS-FS-STARBUCKS", "$-", NoEntry),
      TableRow("2026-02-28 10:05:00", "PENDING", "N/A", NoEntry),
      TableRow("2026-02-28 10:06:00", "PENDING", "", NoEntry),
      [ cells |-> <<"No more transactions", "", "">>, entry |-> NoEntry ] }

MaxRows == 3

Tables == UNION { [1..n -> TableRows] : n \in 0..MaxRows }

NotScraped == [done |-> FALSE, result |-> <<>>]

ScrapeIdle == dom = <<>> /\ ledger = <<>> /\ scraped = NotScraped

ScrapeInit ==
    \E t \in Tables :
        /\ dom = [i \in 1..Len(t) |-> t[i].cells]
        /\ ledger = [i \in 1..Len(t) |-> t[i].entry]
        /\ scraped = NotScraped

CallScrapeCurrentPage ==
    /\ ~scraped.done
    /\ scraped' = [done |-> TRUE, result |-> scrapeCurrentPage(dom)]
    /\ UNCHANGED <<dom, ledger>>

-----------------------------------------------------------------------------
(* extension/content.js 42-70: the pagination loop                         *)

MAX_PAGES == 50

\* The document: the page shown, its table rows, and the Next button as
\* that page has it (present or not, disabled or not).
document(s) ==
    [ shown |-> s.shown,
      rows |-> s.pages[s.shown],
      next |-> IF s.shown < Len(s.pages) THEN "enabled" ELSE s.last ]

\* 42-45: the element whose text is Next, if there is one.
getNextButton(doc) == [found |-> doc.next # "missing", el |-> doc.next]

\* 47-55.
isDisabled(el) == el = "disabled"

\* 66: nextBtn.click(): the portal starts to load a page. While a load is
\* under way the portal may count from the page shown or from the page asked
\* for; Next on the last page, where it is enabled there, loads that page
\* again.
clickTargets(s) ==
    { IF from < Len(s.pages) THEN from + 1 ELSE from :
          from \in {s.shown} \cup (IF s.pending = 0 THEN {} ELSE {s.pending}) }

\* The rows of the portal's pages, each page's rows apart from every other's.
SiteRows ==
    << TableRow("2026-02-25 22:21:45", "01481 : POS-FS-UWP MARKET-37",
                portalAmount(999, TRUE), Entry(999, TRUE)),
       TableRow(" 2026-02-26 09:00:10 ", " WEB DEPOSIT ",
                " " \o portalAmount(5000, FALSE) \o " ", Entry(5000, FALSE)),
       TableRow("2026-02-26 12:01:00", "POS-FS-TH-SLC",
                portalAmount(5, TRUE), Entry(5, TRUE)),
       TableRow("2026-02-27 18:30:00", "V1 LAUNDRY",
                portalAmount(123450, TRUE), Entry(123450, TRUE)),
       TableRow("2026-02-27 19:10:00", "POS-FS-SUBWAY",
                portalAmount(450, TRUE), Entry(450, TRUE)),
       TableRow("2026-02-28 08:15:00", "POS-FS-STARBUCKS",
                portalAmount(675, TRUE), Entry(675, TRUE)) >>

\* Page 1 has the first two rows, every later page the next one.
SitePage(k) ==
    IF k = 1 THEN <<SiteRows[1].cells, SiteRows[2].cells>> ELSE <<SiteRows[k + 1].cells>>

\* The portal has up to MaxSitePages pages; the timer fires before a load
\* has completed up to MaxLate times.
MaxSitePages == 3
MaxLate == 2

\* 61: scrapeCurrentPage() on each page of the portal, worked out once.
ScrapedPages == [k \in 1..MaxSitePages |-> scrapeCurrentPage(SitePage(k))]
scrapeDocument(doc) == ScrapedPages[doc.shown]

Sites ==
    { [pages |-> [k \in 1..n |-> SitePage(k)], last |-> last, shown |-> 1, pending |-> 0] :
          n \in 1..MaxSitePages, last \in {"missing", "disabled", "enabled"} }

LoopIdle ==
    /\ site = [pages |-> <<SitePage(1)>>, last |-> "missing", shown |-> 1, pending |-> 0]
    /\ pc = "done" /\ page = 0 /\ allTransactions = <<>> /\ visited = <<>> /\ lateWakes = 0

LoopInit ==
    /\ site \in Sites
    /\ pc = "start" /\ page = 0 /\ allTransactions = <<>> /\ visited = <<>> /\ lateWakes = 0

\* The portal when the page asked for has loaded.
loaded(s) == [s EXCEPT !.shown = IF s.pending = 0 THEN s.shown ELSE s.pending, !.pending = 0]

\* The portal as a pass of the loop finds it: as it is, with a load perhaps
\* still under way; once the timer has fired before a load MaxLate times,
\* every later load is over before the timer fires.
found(s, n) == IF n >= MaxLate THEN loaded(s) ELSE s

\* 60-67: one pass of the loop body, entered at the start or when the
\* timer of line 67 fires (page++ and the test page < MAX_PAGES come first
\* then): scrape, look for Next, and stop or click and sleep.
IterateClickAlways ==
    /\ pc \in {"start", "sleeping"}
    /\ LET n   == IF pc = "start" THEN 0 ELSE page + 1
           cur == found(site, lateWakes)
       IN
       /\ page' = n
       /\ lateWakes' = IF cur.pending # 0 THEN lateWakes + 1 ELSE lateWakes
       /\ IF n >= MAX_PAGES
          THEN /\ pc' = "done"
               /\ site' = cur
               /\ UNCHANGED <<allTransactions, visited>>
          ELSE /\ allTransactions' = allTransactions \o scrapeDocument(document(cur))
               /\ visited' = Append(visited, cur.shown)
               /\ pc' = "sleeping"
               /\ \E target \in clickTargets(cur) : site' = [cur EXCEPT !.pending = target]

Iterate ==
    /\ pc \in {"start", "sleeping"}
    /\ LET n   == IF pc = "start" THEN 0 ELSE page + 1
           cur == found(site, lateWakes)
       IN
       /\ page' = n
       /\ lateWakes' = IF cur.pending # 0 THEN lateWakes + 1 ELSE lateWakes
       /\ IF n >= MAX_PAGES
          THEN /\ pc' = "done"
               /\ site' = cur
               /\ UNCHANGED <<allTransactions, visited>>
          ELSE LET nextBtn == getNextButton(document(cur)) IN
               /\ allTransactions' = allTransactions \o scrapeDocument(document(cur))
               /\ visited' = Append(visited, cur.shown)
               /\ IF ~nextBtn.found \/ isDisabled(nextBtn.el)
                  THEN pc' = "done" /\ site' = cur
                  ELSE /\ pc' = "sleeping"
                       /\ \E target \in clickTargets(cur) :
                              site' = [cur EXCEPT !.pending = target]

\* The portal: the page asked for has loaded and is shown.
PageLoads ==
    /\ site.pending # 0
    /\ site' = loaded(site)
    /\ UNCHANGED <<pc, page, allTransactions, visited, lateWakes>>

-----------------------------------------------------------------------------
(* README.md 579-594: the runway forecast                                  *)
(* An instant is [day, sec]: the local calendar day, as a day number, and   *)
(* the second of that day.                                                 *)

Instant(day, sec) == [isNull |-> FALSE, day |-> day, sec |-> sec]
NullDate == [isNull |-> TRUE, day |-> 0, sec |-> 0]
NullNumber == [isNull |-> TRUE, v |-> 0]
Number(v) == [isNull |-> FALSE, v |-> v]

\* new Date(): the instant of the wall clock.
instantOf(clk) == Instant(daysFromCivil(clk.y, clk.m, clk.d), clk.sec)

\* date-fns addDays(date, amount), amount >= 0: setDate(getDate() + amount),
\* which drops the fraction of amount and keeps the time of day.
addDays(date, amount) == Instant(date.day + (amount.n \div amount.d), date.sec)

\* date-fns isBefore(a, b)
isBefore(a, b) == a.day < b.day \/ (a.day = b.day /\ a.sec < b.sec)

\* date-fns differenceInDays(later, earlier), later >= earlier: full days.
differenceInDays(later, earlier) ==
    (later.day - earlier.day) - (IF later.sec < earlier.sec THEN 1 ELSE 0)

\* The reference date with April counted among the later months.
semesterEndThroughMarch(clk) ==
    IF clk.m - 1 <= 2 THEN Instant(daysFromCivil(clk.y, 4, 30), 0)
    ELSE Instant(daysFromCivil(clk.y, 12, 15), 0)

\* now.getMonth() <= 3 ? new Date(year, 3, 30) : new Date(year, 11, 15)
\* (getMonth() is 0 for January, so clk.m - 1).
semesterEnd(clk) ==
    IF clk.m - 1 <= 3 THEN Instant(daysFromCivil(clk.y, 4, 30), 0)
    ELSE Instant(daysFromCivil(clk.y, 12, 15), 0)

\* The forecast without the bal > 0 test.
runwayForecastAnyBalance(balInput, burn, clk) ==
    LET parsed == parseFloat(balInput)
        bal    == IF parsed.nan \/ parsed.v = 0 THEN 0 ELSE parsed.v
        rDays  == IF burn.n > 0 THEN Quot((IF bal < 0 THEN 0 - bal ELSE bal) * burn.d, burn.n)
                  ELSE Quot(0, 1)
        rDate  == IF rDays.n > 0 THEN addDays(instantOf(clk), rDays) ELSE NullDate
    IN [ runoutDate |-> rDate,
         daysLeft   |-> IF ~rDate.isNull THEN Number(differenceInDays(rDate, instantOf(clk)))
                        ELSE NullNumber,
         runningOut |-> IF ~rDate.isNull THEN isBefore(rDate, semesterEnd(clk)) ELSE FALSE ]

\* bal is in cents and burn in cents a day, so bal / burn is in days.
runwayForecast(balInput, burn, clk) ==
    LET parsed == parseFloat(balInput)
        bal    == IF parsed.nan \/ parsed.v = 0 THEN 0 ELSE parsed.v
        rDays  == IF bal > 0 /\ burn.n > 0 THEN Quot(bal * burn.d, burn.n) ELSE Quot(0, 1)
        rDate  == IF rDays.n > 0 THEN addDays(instantOf(clk), rDays) ELSE NullDate
    IN [ runoutDate |-> rDate,
         daysLeft   |-> IF ~rDate.isNull THEN Number(differenceInDays(rDate, instantOf(clk)))
                        ELSE NullNumber,
         runningOut |-> IF ~rDate.isNull THEN isBefore(rDate, semesterEnd(clk)) ELSE FALSE ]

\* The texts of the balance field (a number input, or a text restored from
\* storage), each with the balance in cents it stands for.
BalanceTexts ==
    { [text |-> decimal(c \div 100) \o "." \o pad2(c % 100), cents |-> c] :
            c \in {0, 500, 1250, 50000} }
    \cup { [text |-> decimal(c \div 100), cents |-> c] : c \in {0, 500, 50000} }
    \cup { [text |-> "-20", cents |-> 0 - 2000],
           [text |-> "", cents |-> 0],
           [text |-> "abc", cents |-> 0] }

\* The burn rates of a render: totalSpent over elapsedDays.
BurnRates ==
    { dailyBurnRate(total, Num(days)) : total \in {0, 2500, 7500, 10000}, days \in {1, 3, 4} }

WallClocks ==
    [ y : {2026}, m : {1, 3, 4, 5, 12}, d : {10, 30}, sec : {0, 43200} ]

NoForecast == [runoutDate |-> NullDate, daysLeft |-> NullNumber, runningOut |-> FALSE]
NotForecast == [rendered |-> FALSE, value |-> NoForecast]

RunwayIdle ==
    /\ balanceInput = "" /\ entered = 0 /\ burnRate = Quot(0, 1)
    /\ now = [y |-> 2026, m |-> 1, d |-> 10, sec |-> 0]
    /\ forecast = NotForecast

RunwayInit ==
    /\ \E b \in BalanceTexts : balanceInput = b.text /\ entered = b.cents
    /\ burnRate \in BurnRates
    /\ now \in WallClocks
    /\ forecast = NotForecast

RenderForecast ==
    /\ ~forecast.rendered
    /\ forecast' = [rendered |-> TRUE, value |-> runwayForecast(balanceInput, burnRate, now)]
    /\ UNCHANGED <<balanceInput, entered, burnRate, now>>

-----------------------------------------------------------------------------
(* JavaScript: JSON.parse and JSON.stringify                               *)
(* A value is [t, n, s, keys, items]: its type, its number (in hundredths;  *)
(* 1 or 0 for true or false), its text, and for an object or an array its  *)
(* property names and its members in their order. The texts of the model    *)
(* hold no backslash, no exponent and at most two decimals.                 *)

JValue(t, n, s, keys, items) == [t |-> t, n |-> n, s |-> s, keys |-> keys, items |-> items]
JUndefined  == JValue("undefined", 0, "", <<>>, <<>>)
JNull       == JValue("null", 0, "", <<>>, <<>>)
JBoolean(b) == JValue("boolean", IF b THEN 1 ELSE 0, "", <<>>, <<>>)
JNumber(n)  == JValue("number", n, "", <<>>, <<>>)
JString(s)  == JValue("string", 0, s, <<>>, <<>>)
JArray(items) == JValue("array", 0, "", <<>>, items)
JObject(keys, items) == JValue("object", 0, "", keys, items)

Quote == "\""

\* The result of parsing from place i: failed, or the value read and the
\* place after it.
ParseFail == [ok |-> FALSE, v |-> JUndefined, i |-> 0]
ParseOk(v, i) == [ok |-> TRUE, v |-> v, i |-> i]

\* The text lit stands at place i of s.
litAt(s, i, lit) == i + Len(lit) - 1 <= Len(s) /\ SubSeq(s, i, i + Len(lit) - 1) = lit

RECURSIVE skipWs(_, _)
skipWs(s, i) ==
    IF i <= Len(s) /\ CharAt(s, i) \in {" ", "\n"} THEN skipWs(s, i + 1) ELSE i

\* A string: from the quote at place i to the next quote, on one line.
RECURSIVE nextQuote(_, _)
nextQuote(s, i) ==
    IF i > Len(s) \/ CharAt(s, i) = Quote THEN i ELSE nextQuote(s, i + 1)

parseString(s, i) ==
    LET j    == nextQuote(s, i + 1)
        body == SubSeq(s, i + 1, j - 1)
    IN IF j > Len(s) \/ includes(body, "\n") THEN ParseFail
       ELSE ParseOk(JString(body), j + 1)

\* A number: an optional minus, digits with no needless leading zero, and
\* an optional point followed by digits.
parseNumber(s, i) ==
    LET neg  == CharAt(s, i) = "-"
        j    == IF neg THEN i + 1 ELSE i
        ip   == digitPrefix(SubSeq(s, j, Len(s)))
        k    == j + Len(ip)
        dot  == k <= Len(s) /\ CharAt(s, k) = "."
        fp   == IF dot THEN digitPrefix(SubSeq(s, k + 1, Len(s))) ELSE ""
        mag  == 100 * digitsValue(ip) + centsOf(fp)
    IN IF ip = "" \/ (Len(ip) > 1 /\ Head(ip) = "0") \/ (dot /\ fp = "") THEN ParseFail
       ELSE ParseOk(JNumber(IF neg THEN 0 - mag ELSE mag),
                    IF dot THEN k + 1 + Len(fp) ELSE k)

\* obj[k] = v: a name given again keeps its place and takes the new value.
setMember(obj, k, v) ==
    IF \E m \in DOMAIN obj.keys : obj.keys[m] = k
    THEN JObject(obj.keys, [m \in DOMAIN obj.items |->
                                IF obj.keys[m] = k THEN v ELSE obj.items[m]])
    ELSE JObject(Append(obj.keys, k), Append(obj.items, v))

RECURSIVE parseValue(_, _)
RECURSIVE parseElements(_, _, _)
RECURSIVE parseMembers(_, _, _)

\* The elements of an array after its bracket or a comma, up to the
\* closing bracket.
parseElements(s, i, acc) ==
    LET r == parseValue(s, i) IN
    IF ~r.ok THEN ParseFail
    ELSE LET j == skipWs(s, r.i) IN
         IF litAt(s, j, ",") THEN parseElements(s, j + 1, Append(acc, r.v))
         ELSE IF litAt(s, j, "]") THEN ParseOk(JArray(Append(acc, r.v)), j + 1)
         ELSE ParseFail

\* The members of an object after its brace or a comma, up to the closing
\* brace.
parseMembers(s, i, obj) ==
    LET j == skipWs(s, i) IN
    IF ~litAt(s, j, Quote) THEN ParseFail
    ELSE LET k == parseString(s, j) IN
         IF ~k.ok \/ ~litAt(s, skipWs(s, k.i), ":") THEN ParseFail
         ELSE LET r == parseValue(s, skipWs(s, k.i) + 1) IN
              IF ~r.ok THEN ParseFail
              ELSE LET m    == skipWs(s, r.i)
                       next == setMember(obj, k.v.s, r.v)
                   IN IF litAt(s, m, ",") THEN parseMembers(s, m + 1, next)
                      ELSE IF litAt(s, m, "}") THEN ParseOk(next, m + 1)
                      ELSE ParseFail

parseValue(s, i0) ==
    LET i == skipWs(s, i0) IN
    IF i > Len(s) THEN ParseFail
    ELSE IF litAt(s, i, "null") THEN ParseOk(JNull, i + 4)
    ELSE IF litAt(s, i, "true") THEN ParseOk(JBoolean(TRUE), i + 4)
    ELSE IF litAt(s, i, "false") THEN ParseOk(JBoolean(FALSE), i + 5)
    ELSE IF litAt(s, i, Quote) THEN parseString(s, i)
    ELSE IF litAt(s, i, "[") THEN
         (IF litAt(s, skipWs(s, i + 1), "]") THEN ParseOk(JArray(<<>>), skipWs(s, i + 1) + 1)
          ELSE parseElements(s, i + 1, <<>>))
    ELSE IF litAt(s, i, "{") THEN
         (IF litAt(s, skipWs(s, i + 1), "}")
          THEN ParseOk(JObject(<<>>, <<>>), skipWs(s, i + 1) + 1)
          ELSE parseMembers(s, i + 1, JObject(<<>>, <<>>)))
    ELSE IF litAt(s, i, "-") \/ isDigit(CharAt(s, i)) THEN parseNumber(s, i)
    ELSE ParseFail

\* JSON.parse(s): [ok, v]; ok is false where JSON.parse throws a SyntaxError
\* (no value, or something other than white space after the value).
JSONparse(s) ==
    LET r == parseValue(s, 1) IN
    IF r.ok /\ skipWs(s, r.i) > Len(s) THEN [ok |-> TRUE, v |-> r.v]
    ELSE [ok |-> FALSE, v |-> JUndefined]

\* A number as JSON.stringify writes it: no trailing zero after the point.
numberText(n) ==
    LET mag == IF n < 0 THEN 0 - n ELSE n IN
    (IF n < 0 THEN "-" ELSE "") \o decimal(mag \div 100)
        \o (IF mag % 100 = 0 THEN ""
            ELSE IF mag % 10 = 0 THEN "." \o CharAt(Digits, (mag % 100) \div 10 + 1)
            ELSE "." \o pad2(mag % 100))

RECURSIVE JSONstringify(_)
RECURSIVE stringifyItems(_)
RECURSIVE stringifyMembers(_, _)

stringifyItems(items) ==
    IF items = <<>> THEN ""
    ELSE IF Len(items) = 1 THEN JSONstringify(items[1])
    ELSE JSONstringify(items[1]) \o "," \o stringifyItems(Tail(items))

stringifyMembers(keys, items) ==
    IF keys = <<>> THEN ""
    ELSE Quote \o keys[1] \o Quote \o ":" \o JSONstringify(items[1])
         \o (IF Len(keys) = 1 THEN "" ELSE "," \o stringifyMembers(Tail(keys), Tail(items)))

\* JSON.stringify(v), with no indentation.
JSONstringify(v) ==
    IF v.t = "null" THEN "null"
    ELSE IF v.t = "boolean" THEN (IF v.n = 1 THEN "true" ELSE "false")
    ELSE IF v.t = "number" THEN numberText(v.n)
    ELSE IF v.t = "string" THEN Quote \o v.s \o Quote
    ELSE IF v.t = "array" THEN "[" \o stringifyItems(v.items) \o "]"
    ELSE "{" \o stringifyMembers(v.keys, v.items) \o "}"

-----------------------------------------------------------------------------
(* README.md 278-280, 455-508, 658: the Dashboard component and the page's  *)
(* storage                                                                 *)

STORAGE_KEY   == "watcard-txns-v1"
TIMESTAMP_KEY == "watcard-ts-v1"
BALANCE_KEY   == "watcard-bal-v1"
StorageKeys   == {STORAGE_KEY, TIMESTAMP_KEY, BALANCE_KEY}

\* A string or null: what getItem returns, and the lastUpdated state.
NullText == [isNull |-> TRUE, text |-> ""]
Text(s) == [isNull |-> FALSE, text |-> s]

\* if (x) on a string or null.
nonEmpty(x) == ~x.isNull /\ x.text # ""

getItem(store, k) == store[k]
setItem(store, k, s) == [store EXCEPT ![k] = Text(s)]
removeItem(store, k) == [store EXCEPT ![k] = NullText]

EmptyStorage == [k \in StorageKeys |-> NullText]

\* The state of a component just constructed (balanceInput, "" then, is the
\* variable of that name).
InitialState ==
    [raw |-> "", transactions |-> JNull, error |-> "", lastUpdated |-> NullText, animKey |-> 0]

\* v[k] for a value v that is not null, and whether if (v) takes it as true.
get(v, k) ==
    IF v.t = "object" /\ \E m \in DOMAIN v.keys : v.keys[m] = k
    THEN v.items[CHOOSE m \in DOMAIN v.keys : v.keys[m] = k]
    ELSE JUndefined

truthy(v) ==
    IF v.t \in {"undefined", "null"} THEN FALSE
    ELSE IF v.t \in {"boolean", "number"} THEN v.n # 0
    ELSE IF v.t = "string" THEN v.s # ""
    ELSE TRUE

\* What a render with the transactions state list can end in: the input view
\* (658), the dashboard, or an exception thrown by a derivation or by a row
\* of the table. The exceptions, in the order of the source:
\*   513  t.isDeposit of an element that is null;
\*   519  t.date.split of a purchase whose date is not a string;
\*   540  t.terminal.toUpperCase of a purchase whose terminal is not a string;
\*   652  b.date.localeCompare of an element whose date is not a string: the
\*        elements the sort hands to the comparison as b are the engine's
\*        choice, so with two elements or more, of which some have a date
\*        that is a string, the render may throw or not;
\*   1200, 1217  a date, or a purchase's category, that is an object (not a
\*        valid child of an element);
\*   1203 raw.includes in cleanTerminal of a terminal that is not a string;
\*   1222 t.amount.toFixed of an amount that is not a number.
renderViews(list) ==
    IF list.t # "array" THEN {"input"}
    ELSE LET items     == list.items
             bought    == SelectSeq(items, LAMBDA t : ~truthy(get(t, "isDeposit")))
             noDate    == { i \in DOMAIN items : get(items[i], "date").t # "string" }
             throws ==
                 \/ \E i \in DOMAIN items : items[i].t = "null"
                 \/ \E i \in DOMAIN bought : get(bought[i], "date").t # "string"
                 \/ \E i \in DOMAIN bought : get(bought[i], "terminal").t # "string"
                 \/ Len(items) >= 2 /\ noDate = DOMAIN items
                 \/ \E i \in DOMAIN items : get(items[i], "date").t = "object"
                 \/ \E i \in DOMAIN bought : get(bought[i], "category").t = "object"
                 \/ \E i \in DOMAIN items : get(items[i], "terminal").t # "string"
                 \/ \E i \in DOMAIN items : get(items[i], "amount").t # "number"
         IN IF throws THEN {"crashed"}
            ELSE IF Len(items) >= 2 /\ noDate # {} THEN {"dashboard", "crashed"}
            ELSE {"dashboard"}

\* 463-476: the state after the hydration effect. An item that does not
\* parse ends the effect in its catch, before the timestamp and the balance
\* are read.
hydrateListOnly(store) ==
    LET stored == getItem(store, STORAGE_KEY)
        parsed == JSONparse(stored.text)
        isList == nonEmpty(stored) /\ parsed.ok /\ parsed.v.t = "array"
    IN [state |-> [InitialState EXCEPT
                     !.transactions = IF isList THEN parsed.v ELSE JNull,
                     !.animKey = IF isList THEN 1 ELSE 0],
        balanceInput |-> ""]

hydrate(store) ==
    LET stored == getItem(store, STORAGE_KEY)
        parsed == JSONparse(stored.text)
        ts     == getItem(store, TIMESTAMP_KEY)
        bal    == getItem(store, BALANCE_KEY)
        isList == nonEmpty(stored) /\ parsed.ok /\ parsed.v.t = "array"
    IN IF nonEmpty(stored) /\ ~parsed.ok
       THEN [state |-> InitialState, balanceInput |-> ""]
       ELSE [state |-> [InitialState EXCEPT
                          !.transactions = IF isList THEN parsed.v ELSE JNull,
                          !.animKey = IF isList THEN 1 ELSE 0,
                          !.lastUpdated = IF nonEmpty(ts) THEN ts ELSE NullText],
             balanceInput |-> IF nonEmpty(bal) THEN bal.text ELSE ""]

\* 478-482: the effect that runs after a render in which balanceInput is
\* new.
persistBalance(store, bal) ==
    IF bal # "" THEN setItem(store, BALANCE_KEY, bal) ELSE removeItem(store, BALANCE_KEY)

\* The message of the SyntaxError JSON.parse throws: the engine's words,
\* never empty.
SyntaxErrorMessage == "Unexpected token"

\* 484-499: handleGenerate at time stamp ts: the state and the storage it
\* leaves.
handleGenerateStoreFirst(state, store, ts) ==
    LET parsed == JSONparse(state.raw)
        saved  == setItem(setItem(store, STORAGE_KEY, JSONstringify(parsed.v)),
                          TIMESTAMP_KEY, ts)
    IN IF trim(state.raw) = ""
       THEN [state |-> [state EXCEPT !.error = "Paste your JSON data first."], store |-> store]
       ELSE IF ~parsed.ok
       THEN [state |-> [state EXCEPT !.error = SyntaxErrorMessage], store |-> store]
       ELSE IF parsed.v.t # "array"
       THEN [state |-> [state EXCEPT !.error = "Expected a JSON array."], store |-> saved]
       ELSE [state |-> [state EXCEPT !.lastUpdated = Text(ts), !.transactions = parsed.v,
                                     !.animKey = @ + 1, !.error = ""],
             store |-> saved]

handleGenerate(state, store, ts) ==
    LET parsed == JSONparse(state.raw) IN
    IF trim(state.raw) = ""
    THEN [state |-> [state EXCEPT !.error = "Paste your JSON data first."], store |-> store]
    ELSE IF ~parsed.ok
    THEN [state |-> [state EXCEPT !.error = SyntaxErrorMessage], store |-> store]
    ELSE IF parsed.v.t # "array"
    THEN [state |-> [state EXCEPT !.error = "Expected a JSON array."], store |-> store]
    ELSE [state |-> [state EXCEPT !.lastUpdated = Text(ts), !.transactions = parsed.v,
                                  !.animKey = @ + 1, !.error = ""],
          store |-> setItem(setItem(store, STORAGE_KEY, JSONstringify(parsed.v)),
                            TIMESTAMP_KEY, ts)]

\* 501-508: handleClear: the state, the balance and the storage it leaves.
handleClearKeepTimestamp(state, store) ==
    [state |-> [state EXCEPT !.transactions = JNull, !.raw = "", !.error = ""],
     balanceInput |-> "",
     store |-> removeItem(removeItem(store, STORAGE_KEY), BALANCE_KEY)]

handleClear(state, store) ==
    [state |-> [state EXCEPT !.transactions = JNull, !.raw = "",
                             !.lastUpdated = NullText, !.error = ""],
     balanceInput |-> "",
     store |-> removeItem(removeItem(removeItem(store, STORAGE_KEY), TIMESTAMP_KEY),
                          BALANCE_KEY)]

\* What toLocaleString("en-CA", ...) gives at the moments of the model.
Timestamps == {"Nov 5, 2026, 9:14 a.m.", "Nov 6, 2026, 4:02 p.m."}

\* The transactions of an export as JSON values (amounts in dollars).
toJSON(txn) ==
    JObject(<<"date", "terminal", "amount", "isDeposit", "category">>,
            <<JString(txn.date), JString(txn.terminal), JNumber(txn.amount),
              JBoolean(txn.isDeposit), JString(txn.category)>>)

Coffee  == Row(Day(2026, 2, 1), "08:05:00", "POS-FS-TH-SLC", 450, FALSE).txn
Deposit == Row(Day(2026, 2, 3), "09:00:00", "WEB DEPOSIT", 2000, TRUE).txn

\* The texts pasted into the field, each with what it is: its kind and, for
\* a JSON text, its value.
Paste(text, kind, value) == [text |-> text, kind |-> kind, value |-> value]

NoDate == JObject(<<"terminal", "amount">>, <<JString("POS-FS-TH-SLC"), JNumber(450)>>)
NoTerminal == JObject(<<"date", "amount">>, <<JString("2026-02-01 08:05:00"), JNumber(450)>>)
NoAmount ==
    JObject(<<"date", "terminal">>, <<JString("2026-02-01 08:05:00"), JString("POS-FS-TH-SLC")>>)

Pastes ==
    { Paste("   ", "empty", JUndefined),
      Paste("[1,", "invalid", JUndefined),
      Paste("watcard", "invalid", JUndefined),
      Paste(JSONstringify(toJSON(Coffee)), "notArray", toJSON(Coffee)),
      Paste("null", "notArray", JNull),
      Paste("[]", "array", JArray(<<>>)),
      Paste(JSONstringify(JArray(<<toJSON(Deposit), toJSON(Coffee)>>)), "array",
            JArray(<<toJSON(Deposit), toJSON(Coffee)>>)),
      Paste("[\n  {\n    \"date\": \"2026-02-01 08:05:00\",\n    \"terminal\": \"POS-FS-TH-SLC\",\n    \"amount\": 4.50,\n    \"isDeposit\": false,\n    \"category\": \"Dining\"\n  }\n]",
            "array", JArray(<<toJSON(Coffee)>>)),
      Paste("[null]", "array", JArray(<<JNull>>)),
      Paste("[5]", "array", JArray(<<JNumber(500)>>)),
      Paste("[{\"terminal\":\"POS-FS-TH-SLC\",\"amount\":4.5}]", "array", JArray(<<NoDate>>)),
      Paste("[{\"date\":\"2026-02-01 08:05:00\",\"amount\":4.5}]", "array",
            JArray(<<NoTerminal>>)),
      Paste("[{\"date\":\"2026-02-01 08:05:00\",\"terminal\":\"POS-FS-TH-SLC\"}]", "array",
            JArray(<<NoAmount>>)) }

NothingPasted == [kind |-> "empty", value |-> JUndefined]
NothingAccepted == [status |-> "none", list |-> JNull, ts |-> ""]

\* The balances typed into the field of the dashboard.
TypedBalances == { b \in BalanceTexts : b.text \in {"", "12.50", "500"} }

\* The storage a page load can find: nothing, or a list, a time stamp and a
\* balance of which the list may have been damaged (cut short, or replaced
\* by something that is not a list) or removed since it was written.
CutShort == "[1,"
DamagedLists == {"{}", CutShort}

StoredBefore ==
    { EmptyStorage }
    \cup { [k \in StorageKeys |->
               IF k = STORAGE_KEY THEN Text(list)
               ELSE IF k = TIMESTAMP_KEY THEN Text("Nov 4, 2026, 11:30 a.m.")
               ELSE Text("12.50")] :
           list \in {JSONstringify(JArray(<<toJSON(Coffee)>>))} \cup DamagedLists }
    \cup { [k \in StorageKeys |->
               IF k = STORAGE_KEY THEN NullText
               ELSE IF k = TIMESTAMP_KEY THEN Text("Nov 4, 2026, 11:30 a.m.")
               ELSE Text("12.50")] }

\* Generate counts up animKey; the model stops at MaxAnimKey.
MaxAnimKey == 2

DashIdle ==
    /\ component = InitialState /\ localStorage = EmptyStorage
    /\ view = "unmounted" /\ pasted = NothingPasted /\ accepted = NothingAccepted

DashInit ==
    /\ component = InitialState /\ localStorage \in StoredBefore
    /\ view = "unmounted" /\ pasted = NothingPasted /\ accepted = NothingAccepted

\* The first render and its effects: hydration (463-476), the balance
\* effect with the balance of the first render (478-482), then the render
\* with the hydrated state and, if it completes with a new balance, the
\* balance effect again.
Mount ==
    /\ view = "unmounted"
    /\ LET h     == hydrate(localStorage)
           first == persistBalance(localStorage, "")
       IN \E v \in renderViews(h.state.transactions) :
              /\ component' = h.state
              /\ balanceInput' = h.balanceInput
              /\ view' = v
              /\ localStorage' = IF v # "crashed" /\ h.balanceInput # ""
                                 THEN persistBalance(first, h.balanceInput)
                                 ELSE first
    /\ UNCHANGED <<pasted, accepted, entered, burnRate, now, forecast>>

\* 695: the paste field, shown in the input view only.
SetRaw ==
    /\ view = "input"
    /\ \E paste \in Pastes :
           /\ component' = [component EXCEPT !.raw = paste.text]
           /\ pasted' = [kind |-> paste.kind, value |-> paste.value]
    /\ UNCHANGED <<localStorage, view, accepted, runwayVars>>

\* 484-499, 703 and the render that follows: the Generate button, shown in the
\* input view only.
HandleGenerate ==
    /\ view = "input"
    /\ component.animKey < MaxAnimKey
    /\ \E ts \in Timestamps :
           LET r == handleGenerate(component, localStorage, ts) IN
           /\ component' = r.state
           /\ localStorage' = r.store
           /\ view' \in renderViews(r.state.transactions)
           /\ accepted' = IF pasted.kind = "array"
                          THEN [status |-> "generated", list |-> pasted.value, ts |-> ts]
                          ELSE accepted
    /\ UNCHANGED <<pasted, runwayVars>>

\* 755 and 478-482: the balance field, shown in the dashboard only.
SetBalanceInput ==
    /\ view = "dashboard"
    /\ \E b \in TypedBalances :
           /\ balanceInput' = b.text
           /\ entered' = b.cents
           /\ localStorage' = persistBalance(localStorage, b.text)
    /\ UNCHANGED <<component, view, pasted, accepted, burnRate, now, forecast>>

\* 501-508, 763 and 478-482: the Clear button, shown in the dashboard only.
HandleClear ==
    /\ view = "dashboard"
    /\ LET r == handleClear(component, localStorage) IN
       /\ component' = r.state
       /\ balanceInput' = r.balanceInput
       /\ localStorage' = IF r.balanceInput # balanceInput
                          THEN persistBalance(r.store, r.balanceInput)
                          ELSE r.store
    /\ entered' = 0
    /\ view' = "input"
    /\ pasted' = NothingPasted
    /\ accepted' = [accepted EXCEPT !.status = "cleared"]
    /\ UNCHANGED <<burnRate, now, forecast>>

\* The page is loaded again: a new component, the same storage.
Reload ==
    /\ view # "unmounted"
    /\ component' = InitialState
    /\ balanceInput' = ""
    /\ entered' = 0
    /\ view' = "unmounted"
    /\ pasted' = NothingPasted
    /\ UNCHANGED <<localStorage, accepted, burnRate, now, forecast>>

-----------------------------------------------------------------------------
(* extension/popup.js: the click handler of the copy button                *)

\* JSON.stringify(v, null, 2): every member of an array or object on a line
\* of its own, two blanks deeper than the bracket.
RECURSIVE blanks(_)
blanks(n) == IF n = 0 THEN "" ELSE " " \o blanks(n - 1)

RECURSIVE stringifyIndented(_, _)
RECURSIVE indentedItems(_, _)
RECURSIVE indentedMembers(_, _, _)

indentedItems(items, depth) ==
    IF items = <<>> THEN ""
    ELSE blanks(depth) \o stringifyIndented(items[1], depth)
         \o (IF Len(items) = 1 THEN "" ELSE ",\n" \o indentedItems(Tail(items), depth))

indentedMembers(keys, items, depth) ==
    IF keys = <<>> THEN ""
    ELSE blanks(depth) \o Quote \o keys[1] \o Quote \o ": "
         \o stringifyIndented(items[1], depth)
         \o (IF Len(keys) = 1 THEN ""
             ELSE ",\n" \o indentedMembers(Tail(keys), Tail(items), depth))

stringifyIndented(v, depth) ==
    IF v.t = "array" /\ v.items # <<>>
    THEN "[\n" \o indentedItems(v.items, depth + 2) \o "\n" \o blanks(depth) \o "]"
    ELSE IF v.t = "object" /\ v.keys # <<>>
    THEN "{\n" \o indentedMembers(v.keys, v.items, depth + 2) \o "\n" \o blanks(depth) \o "}"
    ELSE JSONstringify(v)

\* 5: the first statement of the handler.
onClickLeavesEnabled(b) == [b EXCEPT !.disabled = FALSE]
onClick(b) == [b EXCEPT !.disabled = TRUE]

Status(text, class) == [textContent |-> text, className |-> class]

\* 28-30: the catch block.
caught(message) == Status("Error: " \o message, "error")

\* 26: the status after a copy of n transactions.
copied(n) ==
    Status("Copied " \o decimal(n) \o " transaction" \o (IF n # 1 THEN "s" ELSE "")
               \o " to clipboard.", "success")

\* The handlers without handler h (its finally block has run).
finished(hs, h) == SubSeq(hs, 1, h - 1) \o SubSeq(hs, h + 1, Len(hs))

\* What the script injected into the page can return: nothing, or a list of
\* up to MaxCopied transactions.
MaxCopied == 3

ScriptResults ==
    { JUndefined }
    \cup { JArray(items) :
               items \in UNION { [1..n -> {toJSON(Coffee), toJSON(Deposit)}] :
                                     n \in 0..MaxCopied } }

\* The handlers the model lets run at once.
MaxHandlers == 2

PopupIdle ==
    /\ btn = [disabled |-> FALSE]
    /\ status = Status("", "")
    /\ handlers = <<>>
    /\ clipboard = NullText

\* 4-10: a click on the button (a disabled button gets none): the handler
\* runs up to await chrome.tabs.query.
Click ==
    /\ ~btn.disabled
    /\ Len(handlers) < MaxHandlers
    /\ btn' = onClick(btn)
    /\ status' = Status("Scraping all pages...", "")
    /\ handlers' = Append(handlers, [at |-> "query", result |-> JUndefined])
    /\ UNCHANGED clipboard

\* 10-15, 28-33: chrome.tabs.query settles: with a tab, the handler runs up to
\* await executeScript; with none (tab.id of undefined) or rejected, through
\* catch and finally.
QuerySettles ==
    \E h \in DOMAIN handlers, outcome \in {"tab", "no tab", "rejected"} :
        /\ handlers[h].at = "query"
        /\ IF outcome = "tab"
           THEN /\ handlers' = [handlers EXCEPT ![h].at = "script"]
                /\ UNCHANGED <<btn, status>>
           ELSE /\ status' = caught(IF outcome = "no tab"
                                     THEN "Cannot read properties of undefined"
                                     ELSE "No active tab")
                /\ btn' = [btn EXCEPT !.disabled = FALSE]
                /\ handlers' = finished(handlers, h)
        /\ UNCHANGED clipboard

\* 12-24, 28-33: executeScript settles: with no transactions, the handler returns
\* through finally; with some, it runs up to await writeText; rejected,
\* through catch and finally.
ScriptSettles ==
    \E h \in DOMAIN handlers, outcome \in {"result", "rejected"} :
        /\ handlers[h].at = "script"
        /\ \E result \in (IF outcome = "result" THEN ScriptResults ELSE {JUndefined}) :
               IF outcome = "rejected"
               THEN /\ status' = caught("Cannot access contents of the page")
                    /\ btn' = [btn EXCEPT !.disabled = FALSE]
                    /\ handlers' = finished(handlers, h)
               ELSE IF result.t = "undefined" \/ Len(result.items) = 0
               THEN /\ status' = Status("No transactions found. Are you on the right page?",
                                        "error")
                    /\ btn' = [btn EXCEPT !.disabled = FALSE]
                    /\ handlers' = finished(handlers, h)
               ELSE /\ handlers' = [handlers EXCEPT ![h] = [at |-> "write", result |-> result]]
                    /\ UNCHANGED <<btn, status>>
        /\ UNCHANGED clipboard

\* 24-33: writeText settles: the text is on the clipboard and the status
\* says so, or it is rejected and the handler goes through catch; then
\* finally.
WriteSettles ==
    \E h \in DOMAIN handlers, outcome \in {"written", "rejected"} :
        /\ handlers[h].at = "write"
        /\ IF outcome = "written"
           THEN /\ clipboard' = Text(stringifyIndented(handlers[h].result, 0))
                /\ status' = copied(Len(handlers[h].result.items))
           ELSE /\ status' = caught("Document is not focused.")
                /\ UNCHANGED clipboard
        /\ btn' = [btn EXCEPT !.disabled = FALSE]
        /\ handlers' = finished(handlers, h)

-----------------------------------------------------------------------------
(* Specifications: one per component. The variables of the other           *)
(* components stay at their idle values.                                   *)

exceptCat     == <<bucketVars, personaVars, metricVars, scrapeVars, runwayVars, cleanVars,
                  dashVars, loopVars, popupVars>>
exceptBucket  == <<catVars, personaVars, metricVars, scrapeVars, runwayVars, cleanVars,
                  dashVars, loopVars, popupVars>>
exceptPersona == <<catVars, bucketVars, metricVars, scrapeVars, runwayVars, cleanVars,
                  dashVars, loopVars, popupVars>>
exceptMetrics == <<catVars, bucketVars, personaVars, scrapeVars, runwayVars, cleanVars,
                  dashVars, loopVars, popupVars>>
exceptScrape  == <<catVars, bucketVars, personaVars, metricVars, runwayVars, cleanVars,
                  dashVars, loopVars, popupVars>>
exceptRunway  == <<catVars, bucketVars, personaVars, metricVars, scrapeVars, cleanVars,
                  dashVars, loopVars, popupVars>>

InitCategorize ==
    CatInit /\ BucketIdle /\ PersonaIdle /\ MetricsIdle /\ ScrapeIdle /\ RunwayIdle /\ CleanIdle
    /\ DashIdle /\ LoopIdle /\ PopupIdle
NextCategorize == CallCategorize /\ UNCHANGED exceptCat
SpecCategorize == InitCategorize /\ [][NextCategorize]_vars

InitBucket ==
    BucketInit /\ CatIdle /\ PersonaIdle /\ MetricsIdle /\ ScrapeIdle /\ RunwayIdle /\ CleanIdle
    /\ DashIdle /\ LoopIdle /\ PopupIdle
NextBucket == CallGetTimeBucket /\ UNCHANGED exceptBucket
SpecBucket == InitBucket /\ [][NextBucket]_vars

InitPersona ==
    PersonaInit /\ CatIdle /\ BucketIdle /\ MetricsIdle /\ ScrapeIdle /\ RunwayIdle /\ CleanIdle
    /\ DashIdle /\ LoopIdle /\ PopupIdle
NextPersona == CallGetPersona /\ UNCHANGED exceptPersona
SpecPersona == InitPersona /\ [][NextPersona]_vars

InitMetrics ==
    MetricsInit /\ CatIdle /\ BucketIdle /\ PersonaIdle /\ ScrapeIdle /\ RunwayIdle /\ CleanIdle
    /\ DashIdle /\ LoopIdle /\ PopupIdle
NextMetrics == Render /\ UNCHANGED exceptMetrics
SpecMetrics == InitMetrics /\ [][NextMetrics]_vars

InitLocations ==
    LocationsInit /\ CatIdle /\ BucketIdle /\ PersonaIdle /\ ScrapeIdle /\ RunwayIdle /\ CleanIdle
    /\ DashIdle /\ LoopIdle /\ PopupIdle
NextLocations == Render /\ UNCHANGED exceptMetrics
SpecLocations == InitLocations /\ [][NextLocations]_vars

InitScrape ==
    ScrapeInit /\ CatIdle /\ BucketIdle /\ PersonaIdle /\ MetricsIdle /\ RunwayIdle /\ CleanIdle
    /\ DashIdle /\ LoopIdle /\ PopupIdle
NextScrape == CallScrapeCurrentPage /\ UNCHANGED exceptScrape
SpecScrape == InitScrape /\ [][NextScrape]_vars

exceptClean   == <<catVars, bucketVars, personaVars, metricVars, scrapeVars, runwayVars,
                  dashVars, loopVars, popupVars>>

InitClean ==
    CleanInit /\ CatIdle /\ BucketIdle /\ PersonaIdle /\ MetricsIdle /\ ScrapeIdle /\ RunwayIdle
    /\ DashIdle /\ LoopIdle /\ PopupIdle
NextClean == CallCleanTerminal /\ UNCHANGED exceptClean
SpecClean == InitClean /\ [][NextClean]_vars

exceptDashboard == <<catVars, bucketVars, personaVars, metricVars, scrapeVars, cleanVars, loopVars, popupVars>>

InitDashboard ==
    DashInit /\ CatIdle /\ BucketIdle /\ PersonaIdle /\ MetricsIdle /\ ScrapeIdle /\ RunwayIdle
    /\ CleanIdle /\ LoopIdle /\ PopupIdle
NextDashboard ==
    \/ Mount /\ UNCHANGED exceptDashboard
    \/ SetRaw /\ UNCHANGED exceptDashboard
    \/ HandleGenerate /\ UNCHANGED exceptDashboard
    \/ SetBalanceInput /\ UNCHANGED exceptDashboard
    \/ HandleClear /\ UNCHANGED exceptDashboard
    \/ Reload /\ UNCHANGED exceptDashboard
SpecDashboard == InitDashboard /\ [][NextDashboard]_vars

exceptLoop == <<catVars, bucketVars, personaVars, metricVars, scrapeVars, runwayVars,
               cleanVars, dashVars, popupVars>>

InitPaginate ==
    LoopInit /\ CatIdle /\ BucketIdle /\ PersonaIdle /\ MetricsIdle /\ ScrapeIdle /\ RunwayIdle
    /\ CleanIdle /\ DashIdle /\ PopupIdle
NextPaginate ==
    \/ Iterate /\ UNCHANGED exceptLoop
    \/ PageLoads /\ UNCHANGED exceptLoop
SpecPaginate == InitPaginate /\ [][NextPaginate]_vars

\* The timer of line 67 fires and the script runs on; a page asked for
\* need never load.
SpecPaginateLive == SpecPaginate /\ WF_vars(Iterate /\ UNCHANGED exceptLoop)

exceptPopup == <<catVars, bucketVars, personaVars, metricVars, scrapeVars, runwayVars,
                cleanVars, dashVars, loopVars>>

InitPopup ==
    PopupIdle /\ CatIdle /\ BucketIdle /\ PersonaIdle /\ MetricsIdle /\ ScrapeIdle /\ RunwayIdle
    /\ CleanIdle /\ DashIdle /\ LoopIdle
NextPopup ==
    \/ Click /\ UNCHANGED exceptPopup
    \/ QuerySettles /\ UNCHANGED exceptPopup
    \/ ScriptSettles /\ UNCHANGED exceptPopup
    \/ WriteSettles /\ UNCHANGED exceptPopup
SpecPopup == InitPopup /\ [][NextPopup]_vars

\* Every promise the handler awaits settles.
SpecPopupLive ==
    /\ SpecPopup
    /\ WF_vars(QuerySettles /\ UNCHANGED exceptPopup)
    /\ WF_vars(ScriptSettles /\ UNCHANGED exceptPopup)
    /\ WF_vars(WriteSettles /\ UNCHANGED exceptPopup)

InitRunway ==
    RunwayInit /\ CatIdle /\ BucketIdle /\ PersonaIdle /\ MetricsIdle /\ ScrapeIdle /\ CleanIdle
    /\ DashIdle /\ LoopIdle /\ PopupIdle
NextRunway == RenderForecast /\ UNCHANGED exceptRunway
SpecRunway == InitRunway /\ [][NextRunway]_vars

-----------------------------------------------------------------------------
(* Text comparison in lower case, for the properties                      *)

LowerOf ==
    [ c \in { CharAt(UpperLetters, i) : i \in 1..Len(UpperLetters) } |->
        CharAt(LowerLetters, CHOOSE i \in 1..Len(UpperLetters) : CharAt(UpperLetters, i) = c) ]

lowerChar(c) == IF c \in DOMAIN LowerOf THEN LowerOf[c] ELSE c

RECURSIVE toLowerCase(_)
toLowerCase(s) ==
    IF s = "" THEN "" ELSE lowerChar(Head(s)) \o toLowerCase(Tail(s))

\* tok occurs in s, compared character by character.
Occurs(s, tok) ==
    \E i \in 1..(Len(s) - Len(tok) + 1) :
        \A k \in 1..Len(tok) : CharAt(s, i + k - 1) = CharAt(tok, k)

\* tok (in lower case) occurs in term, whatever the case of term's letters.
Mentions(term, tok) == Occurs(toLowerCase(term), tok)

-----------------------------------------------------------------------------
(* Properties of the derivations (SpecMetrics)                             *)

PurchaseIdx == { i \in DOMAIN transactions : ~transactions[i].isDeposit }
DepositIdx  == { i \in DOMAIN transactions : transactions[i].isDeposit }

RECURSIVE SumAmounts(_)
SumAmounts(idx) ==
    IF idx = {} THEN 0
    ELSE LET i == CHOOSE j \in idx : TRUE
         IN transactions[i].amount + SumAmounts(idx \ {i})

InsertAt(xs, k, x) == SubSeq(xs, 1, k) \o <<x>> \o SubSeq(xs, k + 1, Len(xs))
RemoveAt(xs, k) == SubSeq(xs, 1, k - 1) \o SubSeq(xs, k + 1, Len(xs))

\* C1: after a render, purchases holds the transactions that are not
\* deposits, in their order, and none with isDeposit = TRUE; totalSpent is the
\* sum of the amounts of exactly those; and the list with one more deposit
\* (anywhere) or one deposit less has the same totalSpent.
C1_PurchasesExcludeDeposits ==
    metrics.rendered =>
        /\ \A i \in DOMAIN metrics.purchases : ~metrics.purchases[i].isDeposit
        /\ Len(metrics.purchases) = Cardinality(PurchaseIdx)
        /\ \A i \in PurchaseIdx :
               metrics.purchases[Cardinality({ j \in PurchaseIdx : j <= i })]
                   = transactions[i]
        /\ metrics.totalSpent = SumAmounts(PurchaseIdx)
        /\ \A row \in DepositRows : \A k \in 0..Len(transactions) :
               totalSpent(purchases(InsertAt(transactions, k, row.txn)))
                   = metrics.totalSpent
        /\ \A k \in DepositIdx :
               totalSpent(purchases(RemoveAt(transactions, k))) = metrics.totalSpent

C1_Witness ==
    /\ metrics.rendered
    /\ DepositIdx # {} /\ Cardinality(PurchaseIdx) >= 2
    /\ metrics.totalSpent > 0

MonthLengths(y) ==
    << 31, IF (y % 4 = 0 /\ y % 100 # 0) \/ y % 400 = 0 THEN 29 ELSE 28,
       31, 30, 31, 30, 31, 31, 30, 31, 30, 31 >>

RECURSIVE DaysBeforeMonth(_, _)
DaysBeforeMonth(y, m) ==
    IF m = 1 THEN 0 ELSE DaysBeforeMonth(y, m - 1) + MonthLengths(y)[m - 1]

\* The position of a day in its year: 1 for January 1.
DayOfYear(a) == DaysBeforeMonth(a.y, a.m) + a.d

DayBefore(a, b) ==
    \/ a.y < b.y
    \/ a.y = b.y /\ a.m < b.m
    \/ a.y = b.y /\ a.m = b.m /\ a.d < b.d

PurchaseDays == { calendar[i] : i \in PurchaseIdx }
FirstPurchaseDay == CHOOSE a \in PurchaseDays : \A b \in PurchaseDays : ~DayBefore(b, a)
LastPurchaseDay  == CHOOSE a \in PurchaseDays : \A b \in PurchaseDays : ~DayBefore(a, b)

NextDay(a) ==
    IF a.d < (IF a.m = 2
              THEN (IF (a.y % 4 = 0 /\ a.y % 100 # 0) \/ a.y % 400 = 0 THEN 29 ELSE 28)
              ELSE IF a.m \in {4, 6, 9, 11} THEN 30 ELSE 31)
    THEN Day(a.y, a.m, a.d + 1)
    ELSE IF a.m < 12 THEN Day(a.y, a.m + 1, 1)
    ELSE Day(a.y + 1, 1, 1)

\* The number of calendar days from a to b, counted one day at a time.
RECURSIVE DaysUntil(_, _)
DaysUntil(a, b) == IF a = b THEN 0 ELSE 1 + DaysUntil(NextDay(a), b)

\* C5: with at least one purchase, elapsedDays is max(1, the number of
\* calendar days from the earliest day with a purchase to the latest one),
\* whichever days in between have purchases and whatever the days of the
\* deposits; purchases from 2026-02-01 to 2026-02-05 give 4.
C5_ElapsedDaysIsSpan ==
    (metrics.rendered /\ PurchaseIdx # {}) =>
        LET span == DaysUntil(FirstPurchaseDay, LastPurchaseDay) IN
        /\ metrics.elapsedDays = Num(IF span > 1 THEN span ELSE 1)
        /\ (FirstPurchaseDay = Day(2026, 2, 1) /\ LastPurchaseDay = Day(2026, 2, 5)
                => metrics.elapsedDays = Num(4))

C5_Witness ==
    /\ metrics.rendered
    /\ PurchaseDays = {Day(2026, 2, 1), Day(2026, 2, 5)}
    /\ \E i \in DepositIdx : calendar[i] = Day(2026, 3, 15)
    /\ metrics.elapsedDays = Num(4)

CoffeePlace(term) ==
    LET low == toLowerCase(term) IN
    \E tok \in {"starbucks", "th-", "th ", "williams"} : Occurs(low, tok)

CoffeeIdx == { i \in PurchaseIdx : CoffeePlace(transactions[i].terminal) }

\* C13: coffeeTax is the sum of the amounts of exactly the purchases whose
\* terminal, in capitals, contains STARBUCKS, "TH-", "TH " or WILLIAMS:
\* a deposit adds nothing, and neither does a purchase at another terminal,
\* whatever its category (a Dining purchase elsewhere is left out, a coffee
\* place filed under Groceries is counted).
C13_CoffeeTaxByTerminal ==
    metrics.rendered =>
        /\ metrics.coffeeTax = SumAmounts(CoffeeIdx)
        /\ (CoffeeIdx = {} => metrics.coffeeTax = 0)

C13_Witness ==
    /\ metrics.rendered
    /\ \E i \in CoffeeIdx : transactions[i].category = "Groceries"
    /\ \E i \in PurchaseIdx \ CoffeeIdx :
           transactions[i].category = "Dining" /\ transactions[i].amount > 0
    /\ DepositIdx # {}
    /\ metrics.coffeeTax = 880

PurchasedCategories == { transactions[i].category : i \in PurchaseIdx }

\* C14: categoryTotals has exactly one entry for each category with at least
\* one purchase and none for any other category; the total of an entry is the
\* sum of the amounts of the purchases of its category (deposits left out);
\* and no entry has a smaller total than the entry after it.
C14_CategoryTotals ==
    metrics.rendered =>
        LET cts == metrics.categoryTotals IN
        /\ { cts[k].name : k \in DOMAIN cts } = PurchasedCategories
        /\ Len(cts) = Cardinality(PurchasedCategories)
        /\ \A k \in DOMAIN cts :
               cts[k].total
                   = SumAmounts({ i \in PurchaseIdx : transactions[i].category = cts[k].name })
        /\ \A k \in 1..(Len(cts) - 1) : cts[k].total >= cts[k + 1].total

\* Two categories purchased in the order of the smaller total first, a
\* deposit, and the other categories absent.
C14_Witness ==
    /\ metrics.rendered
    /\ DepositIdx # {}
    /\ Len(metrics.categoryTotals) = 2
    /\ metrics.categoryTotals[1].total > metrics.categoryTotals[2].total
    /\ \E i, j \in PurchaseIdx :
           /\ i < j
           /\ transactions[i].category = metrics.categoryTotals[2].name
           /\ transactions[j].category = metrics.categoryTotals[1].name

\* The day of the week of January 1 (0 for Sunday) in the years of the
\* model's days: 2025 began on a Wednesday, 2026 on a Thursday.
JanuaryFirst(y) == IF y = 2025 THEN 3 ELSE 4

\* Saturday or Sunday, counted from January 1 of the day's year.
OnWeekend(day) == ((JanuaryFirst(day.y) + DayOfYear(day) - 1) % 7) \in {0, 6}

WeekendIdx == { i \in PurchaseIdx : OnWeekend(calendar[i]) }
WeekdayIdx == { i \in PurchaseIdx : ~OnWeekend(calendar[i]) }

\* The group g of weekdayWeekend is the one of the purchases idx: its total
\* is the sum of their amounts and its avg is that total over the number of
\* distinct days among them, 0 when there is none.
GroupIs(g, name, idx) ==
    LET days == Cardinality({ calendar[i] : i \in idx }) IN
    /\ g.name = name
    /\ g.total = SumAmounts(idx)
    /\ g.avg.d # 0
    /\ IF days = 0 THEN g.avg.n = 0
       ELSE g.avg.n * days = g.total * g.avg.d

\* C15: weekdayWeekend has the group of the purchases made from Monday to
\* Friday and the group of those made on a Saturday or Sunday, by the day of
\* their date; each group's total is the sum of its purchases' amounts, and
\* its avg is the total divided by the number of distinct days in the
\* group, 0 for a group with no day.
C15_WeekdayWeekend ==
    metrics.rendered =>
        /\ Len(metrics.weekdayWeekend) = 2
        /\ GroupIs(metrics.weekdayWeekend[1], "Weekday", WeekdayIdx)
        /\ GroupIs(metrics.weekdayWeekend[2], "Weekend", WeekendIdx)

\* Three weekend purchases on two days, none on a weekday.
C15_Witness ==
    /\ metrics.rendered
    /\ Cardinality(WeekendIdx) = 3
    /\ Cardinality({ calendar[i] : i \in WeekendIdx }) = 2
    /\ WeekdayIdx = {}
    /\ metrics.weekdayWeekend[2].avg.d = 2
    /\ metrics.weekdayWeekend[2].total > 0
    /\ metrics.weekdayWeekend[1].avg = Quot(0, 1)

\* The second of the day printed in a portal date ("YYYY-MM-DD HH:MM:SS").
SecondOfDay(date) ==
    3600 * digitsValue(SubSeq(date, 12, 13)) + 60 * digitsValue(SubSeq(date, 15, 16))
        + digitsValue(SubSeq(date, 18, 19))

\* Transaction i was made before transaction j.
MadeBefore(i, j) ==
    \/ DayBefore(calendar[i], calendar[j])
    \/ /\ calendar[i] = calendar[j]
       /\ SecondOfDay(transactions[i].date) < SecondOfDay(transactions[j].date)

RECURSIVE SumTotals(_)
SumTotals(es) == IF es = <<>> THEN 0 ELSE Head(es).total + SumTotals(Tail(es))

\* C20: sortedTxns holds every transaction of the list once, deposits
\* included (so it is as long as the list), and none of its entries was made
\* before the entry after it; the expense metrics are those of the purchases
\* alone: the totals of the categories and of the two day groups add up to
\* the sum of the purchase amounts, no place of a deposit alone is among
\* topLocations, and the list without its deposits has the same metrics.
C20_HistoryKeepsDeposits ==
    metrics.rendered =>
        /\ Len(metrics.sortedTxns) = Len(transactions)
        /\ \E perm \in Permutations(DOMAIN transactions) :
               /\ metrics.sortedTxns = [k \in DOMAIN transactions |-> transactions[perm[k]]]
               /\ \A k \in 1..(Len(transactions) - 1) : ~MadeBefore(perm[k], perm[k + 1])
        /\ SumTotals(metrics.categoryTotals) = SumAmounts(PurchaseIdx)
        /\ SumTotals(metrics.weekdayWeekend) = SumAmounts(PurchaseIdx)
        /\ \A k \in DOMAIN metrics.topLocations :
               \E i \in PurchaseIdx :
                   Occurs(transactions[i].terminal, metrics.topLocations[k].name)
        /\ LET alone == derive(SelectSeq(transactions, LAMBDA t : ~t.isDeposit)) IN
           \A f \in {"totalSpent", "elapsedDays", "dailyBurnRate", "coffeeTax",
                      "junkFoodTax", "categoryTotals", "persona", "weekdayWeekend",
                      "topLocations"} : alone[f] = metrics[f]

\* A deposit made between two purchases, given first.
C20_Witness ==
    /\ metrics.rendered
    /\ Len(transactions) = 3 /\ PurchaseIdx = {2, 3}
    /\ MadeBefore(2, 1) /\ MadeBefore(1, 3)
    /\ metrics.sortedTxns = <<transactions[3], transactions[1], transactions[2]>>
    /\ metrics.totalSpent = transactions[2].amount + transactions[3].amount

C26_CoffeeWithinDining ==
    metrics.rendered =>
        /\ \A i \in CoffeeIdx : transactions[i].category = "Dining"
        /\ metrics.coffeeTax
               <= SumAmounts({ i \in PurchaseIdx : transactions[i].category = "Dining" })

-----------------------------------------------------------------------------
(* Properties of scrapeCurrentPage (SpecScrape)                            *)

\* The rows that carry a printed entry in a seventh cell, and those whose
\* seventh cell holds no number.
KeptIdx    == { i \in DOMAIN dom : Len(dom[i]) >= 7 /\ ledger[i].printed }
DroppedIdx == { i \in DOMAIN dom : Len(dom[i]) >= 7 /\ ~ledger[i].printed }

\* The transaction emitted for row i, the rows before it counted.
EmittedFor(i) == scraped.result[Cardinality({ j \in KeptIdx : j <= i })]

HasMinus(s) == \E i \in 1..Len(s) : CharAt(s, i) = "-"

\* C3: every emitted transaction has amount >= 0; the one emitted for a row
\* has isDeposit true exactly when the row's amount text has no minus sign,
\* which is exactly when the entry printed there is not a debit, and its
\* amount is the entry's amount without its sign.
C3_DepositFlagAndAbsAmount ==
    (scraped.done /\ Len(scraped.result) = Cardinality(KeptIdx)) =>
        /\ \A k \in DOMAIN scraped.result : scraped.result[k].amount >= 0
        /\ \A i \in KeptIdx :
               /\ EmittedFor(i).isDeposit = ~HasMinus(dom[i][7])
               /\ EmittedFor(i).isDeposit = ~ledger[i].debit
               /\ EmittedFor(i).amount = ledger[i].cents

C3_Witness ==
    /\ scraped.done
    /\ \E i \in KeptIdx : ledger[i] = Entry(999, TRUE)
                           /\ ~EmittedFor(i).isDeposit /\ EmittedFor(i).amount = 999
    /\ \E i \in KeptIdx : ledger[i] = Entry(5000, FALSE)
                           /\ EmittedFor(i).isDeposit /\ EmittedFor(i).amount = 5000

DroppedIn(t) ==
    Cardinality({ i \in DOMAIN t : Len(t[i].cells) >= 7 /\ ~t[i].entry.printed })

-----------------------------------------------------------------------------
(* Properties of the runway forecast (SpecRunway)                          *)

ForecastPresent == ~forecast.value.runoutDate.isNull
DaysAhead == forecast.value.runoutDate.day - instantOf(now).day

\* C10 as stated: a forecast is produced exactly when the entered balance
\* and the burn rate are positive, is absent otherwise, and when produced
\* runoutDate is now + balance / dailyBurnRate days.
C10_RunoutAfterExactQuotient ==
    forecast.rendered =>
        /\ ForecastPresent <=> (entered > 0 /\ burnRate.n > 0)
        /\ (~ForecastPresent => forecast.value = NoForecast)
        /\ (ForecastPresent =>
               /\ forecast.value.runoutDate.sec = now.sec
               /\ DaysAhead * burnRate.n = entered * burnRate.d)

\* C10, amended: a forecast is produced exactly when the entered balance and
\* the burn rate are positive, and is absent otherwise (runoutDate null,
\* daysLeft null, not urgent); when produced, runoutDate is now + the whole
\* days of balance / dailyBurnRate, at the same time of day, and daysLeft is
\* that number of whole days; $500 at $25 a day gives 20 days.
C10_RunoutAfterWholeDays ==
    forecast.rendered =>
        /\ ForecastPresent <=> (entered > 0 /\ burnRate.n > 0)
        /\ (~ForecastPresent => forecast.value = NoForecast)
        /\ (ForecastPresent =>
               /\ forecast.value.runoutDate.sec = now.sec
               /\ DaysAhead * burnRate.n <= entered * burnRate.d
               /\ entered * burnRate.d < (DaysAhead + 1) * burnRate.n
               /\ forecast.value.daysLeft = Number(DaysAhead))
        /\ (entered = 50000 /\ burnRate = Quot(2500, 1) => DaysAhead = 20)

C10_Witness ==
    /\ forecast.rendered /\ ForecastPresent
    /\ (entered * burnRate.d) % burnRate.n # 0
    /\ DaysAhead >= 1

Today == Day(now.y, now.m, now.d)

\* The forecast is flagged exactly when it is present and its date is
\* strictly before midnight at the start of the day ref of the current year.
\* The date has the time of day of now, so it is before that midnight
\* exactly when its day is before ref.
FlaggedAgainst(ref) ==
    forecast.value.runningOut
        <=> /\ ForecastPresent
            /\ DaysAhead < DayOfYear(ref) - DayOfYear(Today)

\* C11 as stated: the reference date is April 30 of the current year when
\* the current month is January, February or March and December 15 for
\* every later month, April included; the forecast is flagged urgent exactly
\* when a runout date exists and is strictly before the reference date.
C11_SemesterEndThroughMarch ==
    forecast.rendered =>
        FlaggedAgainst(IF now.m \in 1..3 THEN Day(now.y, 4, 30) ELSE Day(now.y, 12, 15))

\* C11, amended: the reference date is April 30 of the current year when the
\* current month is January, February, March or April and December 15 for
\* every later month (May through December); the forecast is flagged urgent
\* exactly when a runout date exists and is strictly before the reference
\* date, and is not flagged when there is no runout date.
C11_SemesterEndThroughApril ==
    forecast.rendered =>
        /\ FlaggedAgainst(IF now.m \in 1..4 THEN Day(now.y, 4, 30) ELSE Day(now.y, 12, 15))
        /\ (~ForecastPresent => ~forecast.value.runningOut)

\* In April, a forecast for a day between April 30 and December 15.
C11_Witness ==
    /\ forecast.rendered /\ ForecastPresent
    /\ now.m = 4
    /\ DaysAhead > DayOfYear(Day(now.y, 4, 30)) - DayOfYear(Today)
    /\ DaysAhead < DayOfYear(Day(now.y, 12, 15)) - DayOfYear(Today)
    /\ ~forecast.value.runningOut

-----------------------------------------------------------------------------
(* Properties of categorize (SpecCategorize)                               *)

RuleTable ==
    << [cat |-> "Groceries", toks |-> {"market"}],
       [cat |-> "Laundry",   toks |-> {"laundry", "wes"}],
       [cat |-> "Academic",  toks |-> {"print", "browsers"}],
       [cat |-> "Dining",    toks |-> {"mudies", "brubakers", "th-", "th ", "liquid",
                                       "teriyaki", "subway", "williams", "fresh",
                                       "jugo", "pita", "starbucks", "quesada", "dc"}] >>

FirstMatch(term) ==
    LET low  == toLowerCase(term)
        hits == { i \in 1..Len(RuleTable) :
                    \E tok \in RuleTable[i].toks : Occurs(low, tok) }
    IN IF hits = {} THEN "Other"
       ELSE RuleTable[CHOOSE i \in hits : \A j \in hits : i <= j].cat

\* C2: categorize returns one of the five categories, and it is the category
\* of the first rule of the table (Groceries, Laundry, Academic, Dining) one of
\* whose tokens occurs in the terminal in any letter case, Other when no rule
\* matches; a terminal with both MARKET and LAUNDRY is Groceries.
C2_CategorizeFirstMatch ==
    category # Pending =>
        /\ category \in Categories
        /\ category = FirstMatch(terminal)
        /\ (Mentions(terminal, "market") /\ Mentions(terminal, "laundry")
                => category = "Groceries")

C2_Witness == terminal = "UWP MARKET LAUNDRY" /\ category = "Groceries"

-----------------------------------------------------------------------------
(* Properties of cleanTerminal (SpecClean)                                 *)

\* What follows the first colon of s; s itself when it has none.
AfterFirstColon(s) ==
    IF \A i \in 1..Len(s) : CharAt(s, i) # ":" THEN s
    ELSE SubSeq(s, (CHOOSE i \in 1..Len(s) :
                        /\ CharAt(s, i) = ":"
                        /\ \A j \in 1..(i - 1) : CharAt(s, j) # ":") + 1, Len(s))

\* s from its first to its last character that is not a blank.
Trimmed(s) ==
    IF \A i \in 1..Len(s) : CharAt(s, i) = " " THEN ""
    ELSE SubSeq(s, CHOOSE i \in 1..Len(s) :
                       /\ CharAt(s, i) # " "
                       /\ \A j \in 1..(i - 1) : CharAt(s, j) = " ",
                   CHOOSE i \in 1..Len(s) :
                       /\ CharAt(s, i) # " "
                       /\ \A j \in (i + 1)..Len(s) : CharAt(s, j) = " ")

WithoutPrefix(s) ==
    IF Len(s) >= 7 /\ toLowerCase(SubSeq(s, 1, 7)) = "pos-fs-"
    THEN SubSeq(s, 8, Len(s)) ELSE s

\* The number of digits at the end of s.
RECURSIVE TrailingDigits(_)
TrailingDigits(s) ==
    IF s # "" /\ isDigit(CharAt(s, Len(s)))
    THEN 1 + TrailingDigits(SubSeq(s, 1, Len(s) - 1)) ELSE 0

WithoutNumberSuffix(s) ==
    LET n == TrailingDigits(s) IN
    IF n >= 1 /\ Len(s) > n /\ CharAt(s, Len(s) - n) = "-"
    THEN SubSeq(s, 1, Len(s) - n - 1) ELSE s

WithoutLoneDash(s) ==
    IF Len(s) >= 1 /\ CharAt(s, Len(s)) = "-" THEN SubSeq(s, 1, Len(s) - 1) ELSE s

\* C12 as stated: cleanTerminal is the five steps one after the other (what
\* follows the first colon or the whole string, without a leading POS-FS- in
\* any letter case, without a trailing -<digits>, without a trailing lone -,
\* trimmed), and "01481 : POS-FS-UWP MARKET-37" gives "UWP MARKET".
C12_FiveSteps ==
    cleaned # Pending =>
        /\ cleaned = Trimmed(WithoutLoneDash(WithoutNumberSuffix(WithoutPrefix(
                          AfterFirstColon(rawTerminal)))))
        /\ (rawTerminal = "01481 : POS-FS-UWP MARKET-37" => cleaned = "UWP MARKET")

\* C12, amended: cleanTerminal is: what follows the first colon (or the whole
\* string when there is none), trimmed; then without a leading POS-FS- in any
\* letter case, without a trailing -<digits>, without a trailing lone -,
\* and trimmed again; so "01481 : POS-FS-UWP MARKET-37" gives "UWP MARKET".
C12_TrimThenStrip ==
    cleaned # Pending =>
        /\ cleaned = Trimmed(WithoutLoneDash(WithoutNumberSuffix(WithoutPrefix(
                          Trimmed(AfterFirstColon(rawTerminal))))))
        /\ (rawTerminal = "01481 : POS-FS-UWP MARKET-37" => cleaned = "UWP MARKET")

C12_Witness ==
    rawTerminal = "01481 : POS-FS-UWP MARKET-37" /\ cleaned = "UWP MARKET"

-----------------------------------------------------------------------------
(* Properties of topLocations (SpecLocations)                              *)

\* The name a terminal is shown under.
PlaceName(term) ==
    Trimmed(WithoutLoneDash(WithoutNumberSuffix(WithoutPrefix(Trimmed(AfterFirstColon(term))))))

\* The place of each transaction.
PlaceOf == [i \in DOMAIN transactions |-> PlaceName(transactions[i].terminal)]

\* C16: topLocations has min(5, number of places) entries, each a different
\* place of a purchase under its cleaned name, with the sum of the amounts
\* of the purchases at that place; totals never increase along the list;
\* and no place left out has a greater total than a place in the list.
C16_TopLocations ==
    metrics.rendered =>
        LET top     == metrics.topLocations
            placeOf == PlaceOf
            places  == { placeOf[i] : i \in PurchaseIdx }
            shown   == { top[k].name : k \in DOMAIN top }
            spentAt == [ place \in places |->
                           SumAmounts({ i \in PurchaseIdx : placeOf[i] = place }) ]
        IN /\ Len(top) = (IF Cardinality(places) < 5 THEN Cardinality(places) ELSE 5)
           /\ Cardinality(shown) = Len(top)
           /\ shown \subseteq places
           /\ \A k \in DOMAIN top : top[k].total = spentAt[top[k].name]
           /\ \A k \in 1..(Len(top) - 1) : top[k].total >= top[k + 1].total
           /\ \A place \in places \ shown : \A k \in DOMAIN top :
                  spentAt[place] <= top[k].total

\* Six places, the last of the list above the one left out, the place with
\* the greatest total given last.
C16_Witness ==
    LET placeOf == PlaceOf
        places  == { placeOf[i] : i \in PurchaseIdx }
        left    == places \ { metrics.topLocations[k].name : k \in 1..5 }
    IN /\ metrics.rendered
       /\ Cardinality(places) = 6
       /\ Len(metrics.topLocations) = 5
       /\ \E place \in left :
              SumAmounts({ i \in PurchaseIdx : placeOf[i] = place })
                  < metrics.topLocations[5].total
       /\ placeOf[Len(transactions)] = metrics.topLocations[1].name

\* The transactions in the order perm: perm[i] is the place in the list of
\* the transaction given i-th.
Reordered(perm) == [i \in DOMAIN transactions |-> transactions[perm[i]]]

\* C17: the same transactions given in any other order have the same
\* totalSpent, elapsedDays, coffeeTax and persona, and the same
\* categoryTotals and topLocations, entry for entry (so the same places make
\* the top 5 and in the same order, also when totals are equal).
C17_OrderIndependent ==
    metrics.rendered =>
        \A perm \in Permutations(DOMAIN transactions) :
            LET other == derive(Reordered(perm)) IN
            /\ other.totalSpent = metrics.totalSpent
            /\ other.elapsedDays = metrics.elapsedDays
            /\ other.coffeeTax = metrics.coffeeTax
            /\ other.persona = metrics.persona
            /\ other.categoryTotals = metrics.categoryTotals
            /\ other.topLocations = metrics.topLocations

-----------------------------------------------------------------------------
(* Properties of getTimeBucket (SpecBucket)                                *)

\* C7: getTimeBucket returns one of the four buckets: Morning for a printed
\* hour of 5..10, Lunch for 11..15, Dinner for 16..20, and Late Night for
\* every other hour and for a text with no hour in it.
C7_TimeBuckets ==
    bucket # Pending =>
        /\ bucket \in Buckets
        /\ bucket = IF ~clock.known THEN "Late Night"
                    ELSE IF clock.h \in 5..10 THEN "Morning"
                    ELSE IF clock.h \in 11..15 THEN "Lunch"
                    ELSE IF clock.h \in 16..20 THEN "Dinner"
                    ELSE "Late Night"
        /\ (clock.known /\ clock.h = 11 => bucket = "Lunch")
        /\ (clock.known /\ clock.h = 16 => bucket = "Dinner")
        /\ (clock.known /\ clock.h \in {21, 4} => bucket = "Late Night")
        /\ (clock.known /\ clock.h = 5 => bucket = "Morning")

C7_Witness == clock = Clock(11) /\ bucket = "Lunch"

-----------------------------------------------------------------------------
(* Properties of getPersona (SpecPersona)                                  *)

\* The rules of the decision list, as exact inequalities between amounts.
RuleHolds(i, m) ==
    CASE i = 1 -> m.totalSpent > 0 /\ 4 * m.lateNightSpend > m.totalSpent
      [] i = 2 -> \/ m.coffeeTax > 8000
                  \/ m.totalSpent > 0 /\ 20 * m.coffeeTax > 3 * m.totalSpent
      [] i = 3 -> m.junkFoodTax > 4000
      [] i = 4 -> m.totalSpent > 0 /\ 20 * m.diningTotal > 11 * m.totalSpent
      [] i = 5 -> m.totalSpent > 0 /\ 20 * m.groceriesTotal > 9 * m.totalSpent
      [] i = 6 -> m.academicTotal > 2500
      [] i = 7 -> m.dailyBurnRate.n < 800 * m.dailyBurnRate.d
      [] OTHER -> TRUE

RuleTitles ==
    << "The Midnight Snacker", "The Caffeine Addict", "The Late-Night Gourmet",
       "The Campus Foodie", "The Smart Shopper", "The Scholar",
       "The Budget Master", "The Campus Explorer" >>

FirstRule(m) ==
    CHOOSE i \in 1..Len(RuleTitles) :
        RuleHolds(i, m) /\ \A j \in 1..(i - 1) : ~RuleHolds(j, m)

C9_OnlyFixedRulesAtZero ==
    (persona # Pending /\ p.totalSpent = 0) =>
        persona \in {"The Scholar", "The Budget Master", "The Campus Explorer"}

\* C9, amended: with totalSpent = 0 every fraction is 0, so the fraction
\* rules (1, 4, 5 and the fraction half of 2) never fire; The Caffeine Addict
\* is returned exactly when coffeeTax > $80, The Late-Night Gourmet exactly
\* when coffeeTax <= $80 and late-night dining > $40, and otherwise only The
\* Scholar, The Budget Master or The Campus Explorer.
C9_FractionsZeroAtZero ==
    (persona # Pending /\ p.totalSpent = 0) =>
        /\ persona \notin {"The Midnight Snacker", "The Campus Foodie", "The Smart Shopper"}
        /\ (persona = "The Caffeine Addict" <=> p.coffeeTax > 8000)
        /\ (persona = "The Late-Night Gourmet"
                <=> p.coffeeTax <= 8000 /\ p.junkFoodTax > 4000)
        /\ (p.coffeeTax <= 8000 /\ p.junkFoodTax <= 4000
                => persona \in {"The Scholar", "The Budget Master", "The Campus Explorer"})

C9_Witness ==
    /\ p.totalSpent = 0
    /\ p.lateNightSpend > 0 /\ p.diningTotal > 0 /\ p.groceriesTotal > 0
    /\ p.coffeeTax \in 1..8000
    /\ persona = "The Budget Master"

-----------------------------------------------------------------------------
(* Properties of the Dashboard component (SpecDashboard)                   *)

\* C18: a Generate of a text that is empty, is not JSON, or is JSON but not
\* an array leaves an error message and changes neither the transactions
\* held nor the stored list nor the stored time stamp; a Generate of an
\* array leaves no error message.
C18_GenerateFailsWhole ==
    [][ HandleGenerate =>
            IF pasted.kind # "array"
            THEN /\ component'.error # ""
                 /\ component'.transactions = component.transactions
                 /\ getItem(localStorage', STORAGE_KEY) = getItem(localStorage, STORAGE_KEY)
                 /\ getItem(localStorage', TIMESTAMP_KEY) = getItem(localStorage, TIMESTAMP_KEY)
            ELSE component'.error = "" ]_vars

\* A Generate of JSON that is not an array has failed on a page whose
\* storage holds a list and a time stamp.
C18_Witness ==
    /\ view = "input" /\ pasted.kind = "notArray"
    /\ component.error = "Expected a JSON array."
    /\ component.transactions = JNull
    /\ nonEmpty(getItem(localStorage, STORAGE_KEY))
    /\ nonEmpty(getItem(localStorage, TIMESTAMP_KEY))

\* C19 as stated: whatever array Generate has taken, the render that
\* follows completes.
C19_AcceptedBatchRenders ==
    component.transactions.t = "array" => view # "crashed"

\* C21: a page load that follows a Generate of an array, with no Clear in
\* between, leaves the transactions state equal to that array (the same
\* elements with the same properties in the same order) and lastUpdated
\* equal to the time stamp of that Generate.
C21_PersistenceRoundTrip ==
    [][ (Mount /\ accepted.status = "generated") =>
            /\ component'.transactions = accepted.list
            /\ component'.lastUpdated = Text(accepted.ts) ]_vars

\* A page loaded after the Generate of a list of two transactions shows
\* them.
C21_Witness ==
    /\ view = "dashboard" /\ component.raw = ""
    /\ accepted.status = "generated"
    /\ Len(accepted.list.items) = 2
    /\ component.transactions = accepted.list
    /\ component.lastUpdated = Text(accepted.ts)

\* What a string or null of the storage gives when it is restored: itself,
\* or null when it is empty.
Restored(item) == IF nonEmpty(item) THEN item ELSE NullText

\* C22 as stated: a page load that finds a stored list that is not JSON, or
\* is JSON but not an array, ends in the input view with no transactions,
\* and with the stored time stamp and the stored balance restored and still
\* stored, as they would be were the list missing.
C22_DamagedListAsAbsent ==
    [][ (Mount /\ getItem(localStorage, STORAGE_KEY).text \in DamagedLists) =>
            /\ view' = "input"
            /\ component'.transactions = JNull
            /\ component'.lastUpdated = Restored(getItem(localStorage, TIMESTAMP_KEY))
            /\ balanceInput' = Restored(getItem(localStorage, BALANCE_KEY)).text
            /\ getItem(localStorage', TIMESTAMP_KEY) = getItem(localStorage, TIMESTAMP_KEY)
            /\ getItem(localStorage', BALANCE_KEY)
                   = Restored(getItem(localStorage, BALANCE_KEY)) ]_vars

\* C29 as stated: a page load that finds a non-empty stored balance, and a
\* stored list that is absent or is JSON, ends with that balance in the
\* balance input and still stored.
C29_BalanceSurvivesLoad ==
    [][ ( /\ Mount
          /\ nonEmpty(getItem(localStorage, BALANCE_KEY))
          /\ \/ getItem(localStorage, STORAGE_KEY).isNull
             \/ getItem(localStorage, STORAGE_KEY).text # CutShort ) =>
            /\ balanceInput' = getItem(localStorage, BALANCE_KEY).text
            /\ getItem(localStorage', BALANCE_KEY) = getItem(localStorage, BALANCE_KEY) ]_vars

\* C23: a Clear leaves the three storage entries absent and the
\* transactions, the pasted text, lastUpdated, the balance and the error
\* reset; and a page load that follows a Clear with no Generate in between
\* restores no transactions, no time stamp and no balance.
C23_ClearForgets ==
    [][ /\ HandleClear =>
              /\ localStorage' = EmptyStorage
              /\ component'.transactions = JNull /\ component'.raw = ""
              /\ component'.lastUpdated = NullText /\ component'.error = ""
              /\ balanceInput' = ""
        /\ (Mount /\ accepted.status = "cleared") =>
              /\ view' = "input"
              /\ component'.transactions = JNull
              /\ component'.lastUpdated = NullText
              /\ balanceInput' = ""
              /\ localStorage' = EmptyStorage ]_vars

\* A page loaded again after the Clear of a generated list: nothing is
\* restored.
C23_Witness ==
    /\ accepted.status = "cleared" /\ accepted.list.items # <<>>
    /\ view = "input" /\ component.animKey = 0
    /\ component.transactions = JNull /\ balanceInput = ""
    /\ localStorage = EmptyStorage

-----------------------------------------------------------------------------
(* Properties of the pagination loop (SpecPaginate, SpecPaginateLive)      *)

\* The account entries the portal printed on page k.
PageEntries(k) == IF k = 1 THEN {SiteRows[1].entry, SiteRows[2].entry} ELSE {SiteRows[k + 1].entry}

\* How many of the transactions collected are the entry e.
Collected(e) ==
    Cardinality({ i \in DOMAIN allTransactions :
                      /\ allTransactions[i].amount = e.cents
                      /\ allTransactions[i].isDeposit = ~e.debit })

VisitedPages == { visited[i] : i \in DOMAIN visited }

\* C24 as stated: on a portal whose last page has no Next button or a
\* disabled one, whenever the loads complete, every row of every page the
\* loop has scraped is in allTransactions exactly once, and no page before
\* a scraped one was left out.
C24_EveryRowOnce ==
    site.last # "enabled" =>
        /\ \A k \in VisitedPages : \A e \in PageEntries(k) : Collected(e) = 1
        /\ \A k \in VisitedPages : \A j \in 1..k : j \in VisitedPages

\* C27: the loop scrapes at most MAX_PAGES times, whatever the Next button
\* does; a pass that scrapes a page whose Next button is missing or
\* disabled ends the loop without a click, so that page is scraped once;
\* and the script reaches its end.
C27_LoopTerminates ==
    /\ [](Len(visited) <= MAX_PAGES)
    /\ [](Cardinality({ i \in DOMAIN visited :
                            visited[i] = Len(site.pages) /\ site.last # "enabled" }) <= 1)
    /\ [][ (visited' # visited /\ visited'[Len(visited')] = Len(site.pages)
                /\ site.last # "enabled")
               => (pc' = "done" /\ site'.pending = 0) ]_vars
    /\ <>(pc = "done")

\* The loop has ended after MAX_PAGES passes on a portal whose Next button
\* is never disabled.
C27_Witness ==
    /\ pc = "done" /\ site.last = "enabled"
    /\ Len(visited) = MAX_PAGES /\ page = MAX_PAGES

-----------------------------------------------------------------------------
(* Properties of the popup's click handler (SpecPopupLive)                 *)

\* C28: the copy button is disabled exactly while a click handler is
\* running, so at most one handler (one scrape) runs at a time; whichever
\* way a handler ends (copy, empty result, thrown error) the button is
\* enabled again, so a disabled button always becomes enabled; and the
\* clipboard is written only by a handler whose scrape returned at least
\* one transaction.
C28_ButtonGuardsScrape ==
    /\ [](btn.disabled <=> handlers # <<>>)
    /\ [](Len(handlers) <= 1)
    /\ [](\A h \in DOMAIN handlers :
             handlers[h].at = "write"
                 => handlers[h].result.t = "array" /\ Len(handlers[h].result.items) >= 1)
    /\ [][ clipboard' # clipboard
             => \E h \in DOMAIN handlers :
                    /\ handlers[h].at = "write"
                    /\ Len(handlers[h].result.items) >= 1
                    /\ clipboard' = Text(stringifyIndented(handlers[h].result, 0)) ]_vars
    /\ [][ Len(handlers') < Len(handlers) => ~btn'.disabled ]_vars
    /\ (btn.disabled ~> ~btn.disabled)

\* A handler has copied two transactions and finished; the button is
\* enabled again.
C28_Witness ==
    /\ ~btn.disabled
    /\ handlers = <<>>
    /\ status = copied(2)
    /\ ~clipboard.isNull

====
